---- MODULE Spec2Model ----
(***************************************************************************)
(* Document processing service: the POST /api/process-document handler     *)
(* (the OpenAI variant of server/routes and the Gemini variant             *)
(* server/routes.ts), the standard extraction pipeline                     *)
(* (server/services/extraction.js) and the AI extraction pipelines         *)
(* (server/services/openai.js, server/services/gemini.ts).                 *)
(*                                                                         *)
(* One behaviour follows one call: either one HTTP request through one of  *)
(* the two handlers, or one direct call of an exported extraction          *)
(* function.  Every await of the code is a step boundary.                  *)
(*                                                                         *)
(* Strings are sequences of tokens: a token is either a run of whitespace  *)
(* (" ", "\n") or a piece of text without leading or trailing whitespace,  *)
(* so trim(), truthiness and concatenation are computed as JavaScript      *)
(* computes them.                                                          *)
(***************************************************************************)
EXTENDS Integers, Sequences, FiniteSets, TLC

\* Largest number of pages of a PDF document the model explores.
MaxPages == 2

\* Number of requests in flight at the same time in SpecConcurrent.
NumRequests == 2

----------------------------------------------------------------------------
(* Strings *)

Whitespace == {" ", "\n"}

RECURSIVE trimStart(_)
trimStart(s) ==
    IF s # <<>> /\ Head(s) \in Whitespace THEN trimStart(Tail(s)) ELSE s

RECURSIVE trimEnd(_)
trimEnd(s) ==
    IF s # <<>> /\ s[Len(s)] \in Whitespace
    THEN trimEnd(SubSeq(s, 1, Len(s) - 1))
    ELSE s

\* String.prototype.trim
trim(s) == trimEnd(trimStart(s))

\* JavaScript truthiness of a string: only "" is falsy.
Truthy(s) == s # <<>>

\* Array.prototype.join(' ') over the strings of items.
RECURSIVE join(_)
join(items) ==
    IF items = <<>> THEN <<>>
    ELSE IF Len(items) = 1 THEN items[1]
    ELSE items[1] \o <<" ">> \o join(Tail(items))

\* Tokens in which the substring "quota" or "429" occurs.
QuotaTokens ==
    { "AI service quota exceeded. Please check your OpenAI account usage limits or try using Standard Extraction instead.",
      "AI service quota exceeded for image processing. Please check your OpenAI account limits.",
      "AI service quota exceeded for text processing. Please check your OpenAI account limits.",
      "You exceeded your current quota",
      "Request failed with status code 429" }

\* errorReason.includes("quota") || errorReason.includes("429")
includesQuota(s) == \E i \in 1..Len(s) : s[i] \in QuotaTokens

----------------------------------------------------------------------------
(* Thrown values *)

\* new Error(message): an object with a message and no status, type or code.
Error(message) ==
    [obj |-> TRUE, status |-> 0, type |-> "none", code |-> "none",
     message |-> message]

NoError == Error(<<>>)

\* error instanceof Error ? error.message : String(error)
\* (a thrown non-object is modelled by the string it converts to)
messageOf(error) == error.message

----------------------------------------------------------------------------
(* MIME types *)

\* allowedTypes of the multer fileFilter
allowedTypes == {"application/pdf", "image/jpeg", "image/jpg", "image/png"}

\* MIME types a caller can declare
MimeTypes == allowedTypes \cup {"image/gif", "application/zip"}

\* mimeType.startsWith('image/')
startsWithImage(mimeType) ==
    mimeType \in {"image/jpeg", "image/jpg", "image/png", "image/gif"}

----------------------------------------------------------------------------
(* Documents on disk *)

\* What retrieving one PDF page does: it throws, or yields the strings of
\* the page's text items.
PageOutcomes ==
    { [throws |-> TRUE,  items |-> <<>>],
      [throws |-> FALSE, items |-> <<>>],
      [throws |-> FALSE, items |-> << <<" ">> >>],
      [throws |-> FALSE, items |-> << <<"Hello">> >>],
      [throws |-> FALSE, items |-> << <<"World">> >>] }

PageSeqs == UNION { [1..n -> PageOutcomes] : n \in 0..MaxPages }

\* Text tesseract recognizes in an image
OcrTexts ==
    { <<>>, <<" ", "\n">>, <<"INV-001 Jan 5">>, <<"\n", "INV-001 Jan 5", "\n">> }

VARIABLES
    caller,          \* who runs: "none", "openai" handler, "gemini" handler,
                     \* or a direct call "std" / "ai" of an exported function
    pc,              \* position in the code
    req,             \* the request: file, mimetype, body fields
    file,            \* content of the uploaded file
    fileOnDisk,      \* the temporary file exists under uploads/
    unlinks,         \* number of fs.unlink calls on the temporary file
    responses,       \* HTTP responses sent, in order
    stdOut,          \* outcome of extractTextFromDocument
    aiOut,           \* outcome of extractWithOpenAI / extractWithGemini
    standardText,    \* handler local
    aiExtractedData, \* handler local
    rawExtractedText,\* handler local
    stored,          \* storage.processedDocuments, in insertion order
    run,             \* locals of the extractor that is running
    workers,         \* OCR workers: number created, number of terminate calls
    remote,          \* remote model calls issued, their answers, the upstream failure
    log,             \* events in the order they happened
    requests,        \* concurrent requests: the handler's locals of each
    pool,            \* OCR workers alive or terminated, with who created
                     \* and who terminated each
    clock,           \* the time `new Date()` reads, in milliseconds
    recent           \* the last answer of GET /api/processed-documents

vars == << caller, pc, req, file, fileOnDisk, unlinks, responses, stdOut, aiOut,
           standardText, aiExtractedData, rawExtractedText, stored, run, workers,
           remote, log, requests, pool, clock, recent >>

----------------------------------------------------------------------------
(* Records of the state *)

NoRequest ==
    [hasFile |-> FALSE, mimetype |-> "application/pdf", fileOk |-> TRUE,
     bodyOk |-> TRUE, processingMethod |-> "standard", age |-> 0,
     apiKey |-> TRUE]

NoFile == [readable |-> TRUE, loadable |-> TRUE, pages |-> <<>>]

\* Outcome of a call that has not returned yet / returned / threw.
Pending == [state |-> "pending", text |-> <<>>, error |-> NoError]
Returned(text) == [state |-> "returned", text |-> text, error |-> NoError]
Threw(error) == [state |-> "threw", text |-> <<>>, error |-> error]

\* Locals of the running extractor
NoRun ==
    [pageNum |-> 0, extractedText |-> <<>>, hasWorker |-> FALSE,
     completion |-> Pending, rawText |-> <<>>]

Event(component, what, n) == <<component, what, n>>

----------------------------------------------------------------------------
(* server/services/extraction.js *)

\* Variant of wrapExtractionError that rethrows what it caught
wrapExtractionError_rethrow(error) == error

\* catch of extractTextFromDocument: uniform prefix
wrapExtractionError(error) ==
    Error(<<"Failed to extract text: ">> \o messageOf(error))

\* catch of extractTextFromPDF
wrapPDFError(error) ==
    Error(<<"Failed to extract text from PDF: ">> \o error.message)

\* catch of extractTextFromImage
ocrError == Error(<<"Failed to extract text from image using OCR">>)

\* Variant of pageContribution without page markers and placeholders
pageContribution_noMarkers(pageNum, outcome) ==
    IF outcome.throws THEN <<>>
    ELSE LET pageText == join(outcome.items) IN
         IF Truthy(trim(pageText)) THEN pageText \o <<"\n">> ELSE <<>>

\* What one page adds to extractedText in extractTextFromPDF
pageContribution(pageNum, outcome) ==
    IF outcome.throws
    THEN <<"\n", "--- Page ", ToString(pageNum), " ---", "\n",
           "[Error extracting text from this page]", "\n">>
    ELSE LET pageText == join(outcome.items) IN
         IF Truthy(trim(pageText))
         THEN <<"\n", "--- Page ", ToString(pageNum), " ---", "\n">>
              \o pageText \o <<"\n">>
         ELSE <<>>

\* extractTextFromDocument: dispatch on the MIME type
extractTextFromDocument ==
    /\ pc = "std_dispatch"
    /\ IF req.mimetype = "application/pdf"
       THEN /\ pc' = "pdf_readFile"
            /\ UNCHANGED stdOut
       ELSE IF startsWithImage(req.mimetype)
       THEN /\ pc' = "ocr_createWorker"
            /\ UNCHANGED stdOut
       ELSE /\ pc' = "std_return"
            /\ stdOut' = Threw(wrapExtractionError(
                   Error(<<"Unsupported file type: ", req.mimetype>>)))
    /\ run' = NoRun
    /\ log' = Append(log, Event("std", "dispatch", 0))
    /\ UNCHANGED << caller, req, file, fileOnDisk, unlinks, responses, aiOut,
                    standardText, aiExtractedData, rawExtractedText, stored, workers, remote >>
    /\ UNCHANGED << requests, pool, clock, recent >>

\* Variant of extractTextFromPDF_readFile that removes the file once read
extractTextFromPDF_readFile_consume ==
    /\ pc = "pdf_readFile"
    /\ log' = Append(log, Event("std", "readFile", 0))
    /\ IF fileOnDisk /\ file.readable
       THEN /\ pc' = "pdf_load"
            /\ fileOnDisk' = FALSE
            /\ UNCHANGED stdOut
       ELSE /\ pc' = "std_return"
            /\ stdOut' = Threw(wrapExtractionError(wrapPDFError(
                   Error(<<"ENOENT: no such file or directory">>))))
            /\ UNCHANGED fileOnDisk
    /\ UNCHANGED << caller, req, file, unlinks, responses, aiOut,
                    standardText, aiExtractedData, rawExtractedText, stored, run, workers, remote >>
    /\ UNCHANGED << requests, pool, clock, recent >>

\* extractTextFromPDF: fs.readFile
extractTextFromPDF_readFile ==
    /\ pc = "pdf_readFile"
    /\ log' = Append(log, Event("std", "readFile", 0))
    /\ IF fileOnDisk /\ file.readable
       THEN /\ pc' = "pdf_load"
            /\ UNCHANGED stdOut
       ELSE /\ pc' = "std_return"
            /\ stdOut' = Threw(wrapExtractionError(wrapPDFError(
                   Error(<<"ENOENT: no such file or directory">>))))
    /\ UNCHANGED << caller, req, file, fileOnDisk, unlinks, responses, aiOut,
                    standardText, aiExtractedData, rawExtractedText, stored, run, workers, remote >>
    /\ UNCHANGED << requests, pool, clock, recent >>

\* extractTextFromPDF: pdfjsLib.getDocument(...).promise
extractTextFromPDF_load ==
    /\ pc = "pdf_load"
    /\ log' = Append(log, Event("std", "getDocument", 0))
    /\ IF file.loadable
       THEN /\ pc' = "pdf_page"
            /\ run' = [run EXCEPT !.pageNum = 1, !.extractedText = <<>>]
            /\ UNCHANGED stdOut
       ELSE /\ pc' = "std_return"
            /\ stdOut' = Threw(wrapExtractionError(wrapPDFError(
                   Error(<<"Invalid PDF structure">>))))
            /\ UNCHANGED run
    /\ UNCHANGED << caller, req, file, fileOnDisk, unlinks, responses, aiOut,
                    standardText, aiExtractedData, rawExtractedText, stored, workers, remote >>
    /\ UNCHANGED << requests, pool, clock, recent >>

\* Variant of extractTextFromPDF_page in which a failing page is not caught
extractTextFromPDF_page_failFast ==
    /\ pc = "pdf_page"
    /\ run.pageNum <= Len(file.pages)
    /\ IF file.pages[run.pageNum].throws
       THEN /\ stdOut' = Threw(wrapExtractionError(wrapPDFError(
                   Error(<<"Page retrieval failed">>))))
            /\ pc' = "std_return"
            /\ UNCHANGED run
       ELSE /\ run' = [run EXCEPT
                 !.extractedText =
                     @ \o pageContribution(run.pageNum, file.pages[run.pageNum]),
                 !.pageNum = @ + 1]
            /\ UNCHANGED << pc, stdOut >>
    /\ log' = Append(log, Event("std", "getPage", run.pageNum))
    /\ UNCHANGED << caller, req, file, fileOnDisk, unlinks, responses,
                    aiOut, standardText, aiExtractedData, rawExtractedText, stored, workers, remote >>
    /\ UNCHANGED << requests, pool, clock, recent >>

\* Variant of extractTextFromPDF_page that puts the page before the text so far
extractTextFromPDF_page_prepend ==
    /\ pc = "pdf_page"
    /\ run.pageNum <= Len(file.pages)
    /\ run' = [run EXCEPT
                 !.extractedText =
                     pageContribution(run.pageNum, file.pages[run.pageNum]) \o @,
                 !.pageNum = @ + 1]
    /\ log' = Append(log, Event("std", "getPage", run.pageNum))
    /\ UNCHANGED << caller, pc, req, file, fileOnDisk, unlinks, responses, stdOut,
                    aiOut, standardText, aiExtractedData, rawExtractedText, stored, workers, remote >>
    /\ UNCHANGED << requests, pool, clock, recent >>

\* extractTextFromPDF: one iteration of the page loop
extractTextFromPDF_page ==
    /\ pc = "pdf_page"
    /\ run.pageNum <= Len(file.pages)
    /\ run' = [run EXCEPT
                 !.extractedText =
                     @ \o pageContribution(run.pageNum, file.pages[run.pageNum]),
                 !.pageNum = @ + 1]
    /\ log' = Append(log, Event("std", "getPage", run.pageNum))
    /\ UNCHANGED << caller, pc, req, file, fileOnDisk, unlinks, responses, stdOut,
                    aiOut, standardText, aiExtractedData, rawExtractedText, stored, workers, remote >>
    /\ UNCHANGED << requests, pool, clock, recent >>

\* Variant of extractTextFromPDF_finish without the check for empty text
extractTextFromPDF_finish_unchecked ==
    /\ pc = "pdf_page"
    /\ run.pageNum > Len(file.pages)
    /\ stdOut' = Returned(trim(run.extractedText))
    /\ pc' = "std_return"
    /\ UNCHANGED << caller, req, file, fileOnDisk, unlinks, responses, aiOut,
                    standardText, aiExtractedData, rawExtractedText, stored, run,
                    workers, remote, log >>
    /\ UNCHANGED << requests, pool, clock, recent >>

\* extractTextFromPDF: after the loop, trim and validate
extractTextFromPDF_finish ==
    /\ pc = "pdf_page"
    /\ run.pageNum > Len(file.pages)
    /\ LET extractedText == trim(run.extractedText) IN
       stdOut' = IF ~Truthy(extractedText) \/ Len(extractedText) = 0
                 THEN Threw(wrapExtractionError(wrapPDFError(
                        Error(<<"No text content found in PDF document">>))))
                 ELSE Returned(extractedText)
    /\ pc' = "std_return"
    /\ UNCHANGED << caller, req, file, fileOnDisk, unlinks, responses, aiOut,
                    standardText, aiExtractedData, rawExtractedText, stored, run, workers, remote, log >>
    /\ UNCHANGED << requests, pool, clock, recent >>

\* extractTextFromImage: createWorker('eng')
extractTextFromImage_createWorker ==
    /\ pc = "ocr_createWorker"
    /\ \E created \in BOOLEAN :
         IF created
         THEN /\ workers' = [workers EXCEPT !.created = @ + 1]
              /\ run' = [run EXCEPT !.hasWorker = TRUE]
              /\ pc' = "ocr_recognize"
              /\ log' = Append(log, Event("ocr", "createWorker", 0))
              /\ UNCHANGED stdOut
         ELSE \* createWorker rejects: catch, then finally with worker = null
              /\ stdOut' = Threw(wrapExtractionError(ocrError))
              /\ pc' = "std_return"
              /\ log' = Append(log, Event("ocr", "createWorker failed", 0))
              /\ UNCHANGED << workers, run >>
    /\ UNCHANGED << caller, req, file, fileOnDisk, unlinks, responses, aiOut,
                    standardText, aiExtractedData, rawExtractedText, stored, remote >>
    /\ UNCHANGED << requests, pool, clock, recent >>

\* extractTextFromImage: worker.recognize(filePath), then return text.trim()
\* or the catch; the completion waits for the finally block
extractTextFromImage_recognize ==
    /\ pc = "ocr_recognize"
    /\ \/ \E text \in OcrTexts :
            /\ run' = [run EXCEPT !.completion = Returned(trim(text))]
            /\ fileOnDisk /\ file.readable
       \/ run' = [run EXCEPT !.completion = Threw(ocrError)]
    /\ pc' = "ocr_terminate"
    /\ log' = Append(log, Event("ocr", "recognize", 0))
    /\ UNCHANGED << caller, req, file, fileOnDisk, unlinks, responses, stdOut, aiOut,
                    standardText, aiExtractedData, rawExtractedText, stored, workers, remote >>
    /\ UNCHANGED << requests, pool, clock, recent >>

\* Variant of extractTextFromImage_finally that terminates the worker on the
\* success path only (terminate inside the try block)
extractTextFromImage_finally_successOnly ==
    /\ pc = "ocr_terminate"
    /\ IF run.hasWorker /\ run.completion.state = "returned"
       THEN /\ workers' = [workers EXCEPT !.terminateCalls = @ + 1]
            /\ stdOut' = run.completion
            /\ log' = Append(log, Event("ocr", "terminate", 0))
       ELSE /\ stdOut' = Threw(wrapExtractionError(run.completion.error))
            /\ UNCHANGED << workers, log >>
    /\ pc' = "std_return"
    /\ UNCHANGED << caller, req, file, fileOnDisk, unlinks, responses, aiOut,
                    standardText, aiExtractedData, rawExtractedText, stored, run,
                    remote >>
    /\ UNCHANGED << requests, pool, clock, recent >>

\* extractTextFromImage: finally { if (worker) await worker.terminate() }
extractTextFromImage_finally ==
    /\ pc = "ocr_terminate"
    /\ IF run.hasWorker
       THEN \E terminated \in BOOLEAN :
              /\ workers' = [workers EXCEPT !.terminateCalls = @ + 1]
              /\ stdOut' =
                     IF ~terminated
                     THEN Threw(wrapExtractionError(
                            Error(<<"Worker termination failed">>)))
                     ELSE IF run.completion.state = "threw"
                     THEN Threw(wrapExtractionError(run.completion.error))
                     ELSE run.completion
              /\ log' = Append(log, Event("ocr", "terminate", 0))
       ELSE /\ stdOut' = IF run.completion.state = "threw"
                         THEN Threw(wrapExtractionError(run.completion.error))
                         ELSE run.completion
            /\ UNCHANGED << workers, log >>
    /\ pc' = "std_return"
    /\ UNCHANGED << caller, req, file, fileOnDisk, unlinks, responses, aiOut,
                    standardText, aiExtractedData, rawExtractedText, stored, run, remote >>
    /\ UNCHANGED << requests, pool, clock, recent >>

----------------------------------------------------------------------------
(* Remote model: answers and failures *)

\* message.content of a completion: null, or a string
Content(text) == [null |-> FALSE, text |-> text]
NullContent == [null |-> TRUE, text |-> <<>>]

\* content || ""  and  if (content)
contentOrEmpty(content) == IF content.null THEN <<>> ELSE content.text
contentTruthy(content) == ~content.null /\ Truthy(content.text)

RawTextContents ==
    { NullContent, Content(<<>>), Content(<<"INV-001 Jan 5">>), Content(<<" ">>) }

StructuredContents ==
    { NullContent, Content(<<>>), Content(<<"not json">>),
      Content(<<"{\"invoiceId\":\"INV-001\",\"date\":\"Jan 5\"}">>),
      Content(<<"{}">>), Content(<<"[1,2]">>), Content(<<"\"text\"">>),
      Content(<<"42">>), Content(<<"true">>), Content(<<"null">>) }

\* JSON values: the kind and, for objects and arrays, the members
JsonValue(kind, members) == [kind |-> kind, members |-> members]
EmptyObject == JsonValue("object", {})

\* JSON.parse on the answers above: ok = FALSE when it throws, and value is
\* then the SyntaxError thrown
JSONparse(text) ==
    CASE text = <<"{\"invoiceId\":\"INV-001\",\"date\":\"Jan 5\"}">> ->
            [ok |-> TRUE, value |-> JsonValue("object",
                { <<"invoiceId", "INV-001">>, <<"date", "Jan 5">> })]
      [] text = <<"{}">> -> [ok |-> TRUE, value |-> EmptyObject]
      [] text = <<"[1,2]">> ->
            [ok |-> TRUE, value |-> JsonValue("array", { <<"0", "1">>, <<"1", "2">> })]
      [] text = <<"\"text\"">> ->
            [ok |-> TRUE, value |-> JsonValue("string", { <<"", "text">> })]
      [] text = <<"42">> ->
            [ok |-> TRUE, value |-> JsonValue("number", { <<"", "42">> })]
      [] text = <<"true">> ->
            [ok |-> TRUE, value |-> JsonValue("boolean", { <<"", "true">> })]
      [] text = <<"null">> -> [ok |-> TRUE, value |-> JsonValue("null", {})]
      [] OTHER -> [ok |-> FALSE, value |-> JsonValue("SyntaxError", {})]

\* Variant of parseStructuredData in which a failed parse is not caught
parseStructuredData_noCatch(content) ==
    IF contentTruthy(content) THEN JSONparse(content.text).value ELSE EmptyObject

\* Variant of parseStructuredData that never assigns the parsed value
parseStructuredData_discard(content) == EmptyObject

\* let structuredData = {}; try { if (structuredText) structuredData =
\* JSON.parse(structuredText) } catch { structuredData = {} }
parseStructuredData(content) ==
    IF contentTruthy(content) /\ JSONparse(content.text).ok
    THEN JSONparse(content.text).value
    ELSE EmptyObject

\* Values a remote call can reject with
UpstreamMessages == { <<>>, <<"Connection error.">>, <<"You exceeded your current quota">> }

UpstreamErrors ==
    { [obj |-> TRUE, status |-> s, type |-> t, code |-> c, message |-> m] :
        s \in {0, 400, 401, 429, 500},
        t \in {"none", "insufficient_quota", "invalid_request_error"},
        c \in {"none", "rate_limit_exceeded", "invalid_api_key",
               "context_length_exceeded"},
        m \in UpstreamMessages }
    \cup
    { [obj |-> FALSE, status |-> 0, type |-> "none", code |-> "none",
       message |-> <<"socket hang up">>] }

\* String(error)
StringOf(error) == IF error.obj THEN <<"Error">> ELSE error.message

\* The result object of the AI pipeline, and null
AiData(structuredData, rawText, errorOccurred) ==
    [null |-> FALSE, structuredData |-> structuredData, rawText |-> rawText,
     errorOccurred |-> errorOccurred]
NullData == [null |-> TRUE, structuredData |-> EmptyObject, rawText |-> <<>>,
             errorOccurred |-> FALSE]

AiPending == [state |-> "pending", data |-> NullData, error |-> NoError]
AiReturned(data) == [state |-> "returned", data |-> data, error |-> NoError]
AiThrew(error) == [state |-> "threw", data |-> NullData, error |-> error]

\* User content of a remote call: the image as a data URL, or text only
ImageContent == [image |-> TRUE, text |-> <<>>]

TextContent(text) == [image |-> FALSE, text |-> <<"Text to analyze:", "\n">> \o text]

NoRemote ==
    [calls |-> <<>>, sent |-> <<>>, rawAnswer |-> NullContent,
     structuredAnswer |-> NullContent, failed |-> "none", upstream |-> NoError]

----------------------------------------------------------------------------
(* server/services/openai.js and server/services/gemini.ts *)

\* Which client a caller uses: the routes.ts handler calls extractWithGemini,
\* every other caller extractWithOpenAI.
Provider == IF caller = "gemini" THEN "gemini" ELSE "openai"

\* Message thrown by extractWithOpenAI when the client is null
DisabledMessage ==
    << "OpenAI API key not set. ", "AI extraction is disabled",
       ". Set OPENAI_API_KEY to enable this feature." >>

Suggestion == <<". Try using Standard Extraction as an alternative.">>

\* catch of extractWithOpenAI: classification by status, type and code
\* Variant of the catch that tests the authentication row before the quota row
extractWithOpenAI_catch_authFirst(error) ==
    IF error.obj
    THEN IF \/ error.status = 401
            \/ error.type = "invalid_request_error"
            \/ error.code = "invalid_api_key"
         THEN Error(<<"AI service authentication failed. Please check your OpenAI API key configuration.">>)
         ELSE IF \/ error.status = 429
                 \/ error.type = "insufficient_quota"
                 \/ error.code = "rate_limit_exceeded"
         THEN Error(<<"AI service quota exceeded. Please check your OpenAI account usage limits or try using Standard Extraction instead.">>)
         ELSE IF error.status >= 500
         THEN Error(<<"AI service temporarily unavailable. Please try Standard Extraction or try again later.">>)
         ELSE Error(<<"AI extraction failed: ">>
                    \o (IF Truthy(error.message) THEN error.message
                        ELSE StringOf(error))
                    \o Suggestion)
    ELSE Error(<<"AI extraction failed: ">> \o StringOf(error) \o Suggestion)

extractWithOpenAI_catch(error) ==
    IF error.obj
    THEN IF /\ (error.status # 0 \/ error.type # "none" \/ error.code # "none")
            /\ \/ error.status = 429
               \/ error.type = "insufficient_quota"
               \/ error.code = "rate_limit_exceeded"
         THEN Error(<<"AI service quota exceeded. Please check your OpenAI account usage limits or try using Standard Extraction instead.">>)
         ELSE IF /\ (error.status # 0 \/ error.type # "none" \/ error.code # "none")
                 /\ \/ error.status = 401
                    \/ error.type = "invalid_request_error"
                    \/ error.code = "invalid_api_key"
         THEN Error(<<"AI service authentication failed. Please check your OpenAI API key configuration.">>)
         ELSE IF /\ (error.status # 0 \/ error.type # "none" \/ error.code # "none")
                 /\ error.status >= 500
         THEN Error(<<"AI service temporarily unavailable. Please try Standard Extraction or try again later.">>)
         ELSE Error(<<"AI extraction failed: ">>
                    \o (IF Truthy(error.message) THEN error.message
                        ELSE StringOf(error))
                    \o Suggestion)
    ELSE Error(<<"AI extraction failed: ">> \o StringOf(error) \o Suggestion)

\* catch of extractImageWithAI (openai.js)
extractImageWithAI_catch(error) ==
    IF error.obj /\ (error.status = 429 \/ error.type = "insufficient_quota")
    THEN Error(<<"AI service quota exceeded for image processing. Please check your OpenAI account limits.">>)
    ELSE IF error.obj /\ (error.status = 400 \/ error.type = "invalid_request_error")
    THEN Error(<<"Invalid image format for AI processing. Please ensure the image is clear and readable.">>)
    ELSE Error(<<"AI image extraction failed: ">>
               \o (IF error.obj /\ Truthy(error.message) THEN error.message
                   ELSE StringOf(error)))

\* catch of extractTextWithAI (openai.js)
extractTextWithAI_catch(error) ==
    IF error.obj /\ (error.status = 429 \/ error.type = "insufficient_quota")
    THEN Error(<<"AI service quota exceeded for text processing. Please check your OpenAI account limits.">>)
    ELSE IF /\ error.obj
            /\ error.status = 400
            /\ \/ error.code = "context_length_exceeded"
               \/ error.type = "invalid_request_error"
    THEN Error(<<"Text content too large for AI processing. Please try with a smaller document.">>)
    ELSE Error(<<"AI text extraction failed: ">>
               \o (IF error.obj /\ Truthy(error.message) THEN error.message
                   ELSE StringOf(error)))

\* catch of extractWithGemini; its extractImageWithAI and extractTextWithAI
\* rethrow what they caught
extractWithGemini_catch(error) ==
    Error(<<"AI extraction failed: ">>
          \o (IF error.obj THEN error.message ELSE StringOf(error)))

\* The error the entry point throws when extractImageWithAI fails with error
imageFailure(error) ==
    IF Provider = "gemini"
    THEN extractWithGemini_catch(error)
    ELSE extractWithOpenAI_catch(extractImageWithAI_catch(error))

\* The error the entry point throws when extractTextWithAI fails with error
textFailure(error) ==
    IF Provider = "gemini"
    THEN extractWithGemini_catch(error)
    ELSE extractWithOpenAI_catch(extractTextWithAI_catch(error))

\* The error the entry point throws when the code outside the two helpers
\* (dispatch, PDF text extraction) fails with error
entryFailure(error) ==
    IF Provider = "gemini"
    THEN extractWithGemini_catch(error)
    ELSE extractWithOpenAI_catch(error)

\* What one page adds to extractedText in extractPDFText
aiPageContribution(outcome) ==
    IF outcome.throws THEN <<>>
    ELSE LET pageText == join(outcome.items) IN
         IF Truthy(trim(pageText)) THEN pageText \o <<"\n">> ELSE <<>>

\* Text pdf-parse returns for the pages of a document
RECURSIVE pdfParseText(_)
pdfParseText(pages) ==
    IF pages = <<>> THEN <<>>
    ELSE <<"\n", "\n">> \o join(Head(pages).items) \o pdfParseText(Tail(pages))

\* extractWithOpenAI / extractWithGemini: dispatch on the MIME type
\* Variant of the guard that is missing: the dispatch runs without a client
extractWithOpenAI_noClient_unguarded ==
    /\ pc = "ai_dispatch"
    /\ Provider = "openai" /\ ~req.apiKey
    /\ pc' = IF req.mimetype = "application/pdf" THEN "aipdf_readFile"
             ELSE "ai_image_readFile"
    /\ run' = NoRun
    /\ log' = Append(log, Event("ai", "dispatch", 0))
    /\ UNCHANGED << caller, req, file, fileOnDisk, unlinks, responses, stdOut, aiOut,
                    standardText, aiExtractedData, rawExtractedText, stored, workers, remote >>
    /\ UNCHANGED << requests, pool, clock, recent >>

\* extractWithOpenAI, `if (!openai) throw ...`: the client is null when
\* OPENAI_API_KEY is not set, and the throw is outside the try block
extractWithOpenAI_noClient ==
    /\ pc = "ai_dispatch"
    /\ Provider = "openai" /\ ~req.apiKey
    /\ pc' = "ai_return"
    /\ aiOut' = AiThrew(Error(DisabledMessage))
    /\ log' = log \o << Event("ai", "dispatch", 0), Event("ai", "disabled", 0) >>
    /\ UNCHANGED << caller, req, file, fileOnDisk, unlinks, responses, stdOut,
                    standardText, aiExtractedData, rawExtractedText, stored, run,
                    workers, remote >>
    /\ UNCHANGED << requests, pool, clock, recent >>

extractWithAI ==
    /\ pc = "ai_dispatch"
    /\ Provider = "openai" => req.apiKey
    /\ IF req.mimetype = "application/pdf"
       THEN /\ pc' = IF Provider = "gemini" THEN "gem_pdfParse" ELSE "aipdf_readFile"
            /\ UNCHANGED aiOut
       ELSE IF startsWithImage(req.mimetype)
       THEN /\ pc' = "ai_image_readFile"
            /\ UNCHANGED aiOut
       ELSE /\ pc' = "ai_return"
            /\ aiOut' = AiThrew(entryFailure(
                   Error(<<"Unsupported file type for AI extraction: ", req.mimetype>>)))
    /\ run' = NoRun
    /\ log' = Append(log, Event("ai", "dispatch", 0))
    /\ UNCHANGED << caller, req, file, fileOnDisk, unlinks, responses, stdOut,
                    standardText, aiExtractedData, rawExtractedText, stored, workers, remote >>
    /\ UNCHANGED << requests, pool, clock, recent >>

\* extractPDFText: fs.readFileSync
extractPDFText_readFile ==
    /\ pc = "aipdf_readFile"
    /\ log' = Append(log, Event("ai", "readFile", 0))
    /\ IF fileOnDisk /\ file.readable
       THEN /\ pc' = "aipdf_load"
            /\ UNCHANGED aiOut
       ELSE /\ pc' = "ai_return"
            /\ aiOut' = AiThrew(entryFailure(wrapPDFError(
                   Error(<<"ENOENT: no such file or directory">>))))
    /\ UNCHANGED << caller, req, file, fileOnDisk, unlinks, responses, stdOut,
                    standardText, aiExtractedData, rawExtractedText, stored, run, workers, remote >>
    /\ UNCHANGED << requests, pool, clock, recent >>

\* extractPDFText: pdfjsLib.getDocument(...).promise
extractPDFText_load ==
    /\ pc = "aipdf_load"
    /\ log' = Append(log, Event("ai", "getDocument", 0))
    /\ IF file.loadable
       THEN /\ pc' = "aipdf_page"
            /\ run' = [run EXCEPT !.pageNum = 1, !.extractedText = <<>>]
            /\ UNCHANGED aiOut
       ELSE /\ pc' = "ai_return"
            /\ aiOut' = AiThrew(entryFailure(wrapPDFError(
                   Error(<<"Invalid PDF structure">>))))
            /\ UNCHANGED run
    /\ UNCHANGED << caller, req, file, fileOnDisk, unlinks, responses, stdOut,
                    standardText, aiExtractedData, rawExtractedText, stored, workers, remote >>
    /\ UNCHANGED << requests, pool, clock, recent >>

\* extractPDFText: one iteration of the page loop
extractPDFText_page ==
    /\ pc = "aipdf_page"
    /\ run.pageNum <= Len(file.pages)
    /\ run' = [run EXCEPT
                 !.extractedText = @ \o aiPageContribution(file.pages[run.pageNum]),
                 !.pageNum = @ + 1]
    /\ log' = Append(log, Event("ai", "getPage", run.pageNum))
    /\ UNCHANGED << caller, pc, req, file, fileOnDisk, unlinks, responses, stdOut,
                    aiOut, standardText, aiExtractedData, rawExtractedText, stored, workers, remote >>
    /\ UNCHANGED << requests, pool, clock, recent >>

\* extractPDFText: after the loop, trim and validate
extractPDFText_finish ==
    /\ pc = "aipdf_page"
    /\ run.pageNum > Len(file.pages)
    /\ LET extractedText == trim(run.extractedText) IN
       IF ~Truthy(extractedText) \/ Len(extractedText) = 0
       THEN /\ aiOut' = AiThrew(entryFailure(wrapPDFError(
                   Error(<<"No text content found in PDF document">>))))
            /\ pc' = "ai_return"
            /\ UNCHANGED run
       ELSE /\ run' = [run EXCEPT !.extractedText = extractedText]
            /\ pc' = "ai_text_call"
            /\ UNCHANGED aiOut
    /\ UNCHANGED << caller, req, file, fileOnDisk, unlinks, responses, stdOut,
                    standardText, aiExtractedData, rawExtractedText, stored, workers, remote, log >>
    /\ UNCHANGED << requests, pool, clock, recent >>

\* extractWithGemini, PDF branch: fs.readFileSync and pdfParse
extractWithGemini_pdfParse ==
    /\ pc = "gem_pdfParse"
    /\ log' = Append(log, Event("ai", "readFile", 0))
    /\ IF ~(fileOnDisk /\ file.readable)
       THEN /\ aiOut' = AiThrew(entryFailure(
                   Error(<<"ENOENT: no such file or directory">>)))
            /\ pc' = "ai_return"
            /\ UNCHANGED run
       ELSE IF ~file.loadable \/ \E i \in 1..Len(file.pages) : file.pages[i].throws
       THEN /\ aiOut' = AiThrew(entryFailure(Error(<<"Invalid PDF structure">>)))
            /\ pc' = "ai_return"
            /\ UNCHANGED run
       ELSE /\ run' = [run EXCEPT !.extractedText = pdfParseText(file.pages)]
            /\ pc' = "ai_text_call"
            /\ UNCHANGED aiOut
    /\ UNCHANGED << caller, req, file, fileOnDisk, unlinks, responses, stdOut,
                    standardText, aiExtractedData, rawExtractedText, stored, workers, remote >>
    /\ UNCHANGED << requests, pool, clock, recent >>

\* extractTextWithAI: the structured-data call on text, then the parse
\* Variant of extractTextWithAI that takes rawText from the model's answer
extractTextWithAI_answerAsRawText ==
    /\ pc = "ai_text_call"
    /\ \/ \E content \in StructuredContents :
            /\ aiOut' = AiReturned(AiData(parseStructuredData(content),
                                          contentOrEmpty(content), FALSE))
            /\ remote' = [remote EXCEPT !.calls = Append(@, "text"),
                                        !.sent = Append(@, TextContent(run.extractedText)),
                                        !.structuredAnswer = content]
       \/ \E error \in UpstreamErrors :
            /\ aiOut' = AiThrew(textFailure(error))
            /\ remote' = [remote EXCEPT !.calls = Append(@, "text"),
                                        !.sent = Append(@, TextContent(run.extractedText)),
                                        !.failed = "text", !.upstream = error]
    /\ pc' = "ai_return"
    /\ log' = Append(log, Event("ai", "remote text", 0))
    /\ UNCHANGED << caller, req, file, fileOnDisk, unlinks, responses, stdOut,
                    standardText, aiExtractedData, rawExtractedText, stored, run, workers >>
    /\ UNCHANGED << requests, pool, clock, recent >>

extractTextWithAI ==
    /\ pc = "ai_text_call"
    /\ \/ \E content \in StructuredContents :
            /\ aiOut' = AiReturned(AiData(parseStructuredData(content),
                                          run.extractedText, FALSE))
            /\ remote' = [remote EXCEPT !.calls = Append(@, "text"),
                                        !.sent = Append(@, TextContent(run.extractedText)),
                                        !.structuredAnswer = content]
       \/ \E error \in UpstreamErrors :
            /\ aiOut' = AiThrew(textFailure(error))
            /\ remote' = [remote EXCEPT !.calls = Append(@, "text"),
                                        !.sent = Append(@, TextContent(run.extractedText)),
                                        !.failed = "text", !.upstream = error]
    /\ pc' = "ai_return"
    /\ log' = Append(log, Event("ai", "remote text", 0))
    /\ UNCHANGED << caller, req, file, fileOnDisk, unlinks, responses, stdOut,
                    standardText, aiExtractedData, rawExtractedText, stored, run, workers >>
    /\ UNCHANGED << requests, pool, clock, recent >>

\* extractImageWithAI: fs.readFileSync and base64 encoding
extractImageWithAI_readFile ==
    /\ pc = "ai_image_readFile"
    /\ log' = Append(log, Event("ai", "readFile", 0))
    /\ IF fileOnDisk /\ file.readable
       THEN /\ pc' = "ai_raw_call"
            /\ UNCHANGED aiOut
       ELSE /\ pc' = "ai_return"
            /\ aiOut' = AiThrew(imageFailure(
                   Error(<<"ENOENT: no such file or directory">>)))
    /\ UNCHANGED << caller, req, file, fileOnDisk, unlinks, responses, stdOut,
                    standardText, aiExtractedData, rawExtractedText, stored, run, workers, remote >>
    /\ UNCHANGED << requests, pool, clock, recent >>

\* Variant of pass 1 that goes on to the structured-data call after a failure
extractImageWithAI_rawText_continue ==
    /\ pc = "ai_raw_call"
    /\ \/ \E content \in RawTextContents :
            /\ run' = [run EXCEPT !.rawText = contentOrEmpty(content)]
            /\ remote' = [remote EXCEPT !.calls = Append(@, "rawText"),
                                        !.sent = Append(@, ImageContent),
                                        !.rawAnswer = content]
       \/ \E error \in UpstreamErrors :
            /\ remote' = [remote EXCEPT !.calls = Append(@, "rawText"),
                                        !.sent = Append(@, ImageContent),
                                        !.failed = "rawText", !.upstream = error]
            /\ UNCHANGED run
    /\ pc' = "ai_structured_call"
    /\ log' = Append(log, Event("ai", "remote rawText", 0))
    /\ UNCHANGED << caller, req, file, fileOnDisk, unlinks, responses, stdOut, aiOut,
                    standardText, aiExtractedData, rawExtractedText, stored, workers >>
    /\ UNCHANGED << requests, pool, clock, recent >>

\* extractImageWithAI: pass 1, the raw-text call
extractImageWithAI_rawText ==
    /\ pc = "ai_raw_call"
    /\ \/ \E content \in RawTextContents :
            /\ run' = [run EXCEPT !.rawText = contentOrEmpty(content)]
            /\ remote' = [remote EXCEPT !.calls = Append(@, "rawText"),
                                        !.sent = Append(@, ImageContent),
                                        !.rawAnswer = content]
            /\ pc' = "ai_structured_call"
            /\ UNCHANGED aiOut
       \/ \E error \in UpstreamErrors :
            /\ aiOut' = AiThrew(imageFailure(error))
            /\ remote' = [remote EXCEPT !.calls = Append(@, "rawText"),
                                        !.sent = Append(@, ImageContent),
                                        !.failed = "rawText", !.upstream = error]
            /\ pc' = "ai_return"
            /\ UNCHANGED run
    /\ log' = Append(log, Event("ai", "remote rawText", 0))
    /\ UNCHANGED << caller, req, file, fileOnDisk, unlinks, responses, stdOut,
                    standardText, aiExtractedData, rawExtractedText, stored, workers >>
    /\ UNCHANGED << requests, pool, clock, recent >>

\* extractImageWithAI: pass 2, the structured-data call, then the parse
extractImageWithAI_structured ==
    /\ pc = "ai_structured_call"
    /\ \/ \E content \in StructuredContents :
            /\ aiOut' = AiReturned(AiData(parseStructuredData(content),
                                          run.rawText, FALSE))
            /\ remote' = [remote EXCEPT !.calls = Append(@, "structured"),
                                        !.sent = Append(@, ImageContent),
                                        !.structuredAnswer = content]
       \/ \E error \in UpstreamErrors :
            /\ aiOut' = AiThrew(imageFailure(error))
            /\ remote' = [remote EXCEPT !.calls = Append(@, "structured"),
                                        !.sent = Append(@, ImageContent),
                                        !.failed = "structured", !.upstream = error]
    /\ pc' = "ai_return"
    /\ log' = Append(log, Event("ai", "remote structured", 0))
    /\ UNCHANGED << caller, req, file, fileOnDisk, unlinks, responses, stdOut,
                    standardText, aiExtractedData, rawExtractedText, stored, run, workers >>
    /\ UNCHANGED << requests, pool, clock, recent >>

----------------------------------------------------------------------------
(* Requests *)

\* calculateAge(dateOfBirth) of the requests explored; the body schema
\* admits both
Ages == {4, 30}

\* if (age < 5 || age > 120)
ageOutOfRange(age) == age < 5 \/ age > 120

PdfFiles ==
    { [readable |-> FALSE, loadable |-> FALSE, pages |-> <<>>],
      [readable |-> TRUE, loadable |-> FALSE, pages |-> <<>>] }
    \cup { [readable |-> TRUE, loadable |-> TRUE, pages |-> p] : p \in PageSeqs }

ImageFiles ==
    { [readable |-> r, loadable |-> FALSE, pages |-> <<>>] : r \in BOOLEAN }

FilesFor(mimetype) ==
    IF mimetype = "application/pdf" THEN PdfFiles ELSE ImageFiles

Response(status, message, error) ==
    [status |-> status, message |-> message, error |-> error]

\* The document handed to storage.createProcessedDocument
Document ==
    [age |-> req.age, fileType |-> req.mimetype,
     processingMethod |-> req.processingMethod,
     standardExtractedText |-> standardText,
     aiExtractedData |-> aiExtractedData,
     rawExtractedText |-> rawExtractedText]

\* await fs.unlink(file.path).catch(() => {}) followed by res.status(..).json(..)
unlinkAndRespond(response) ==
    /\ unlinks' = unlinks + 1
    /\ fileOnDisk' = FALSE
    /\ responses' = Append(responses, response)
    /\ log' = log \o (IF pc = "store" THEN << Event("storage", "throw", 0) >>
                       ELSE << >>)
                  \o << Event("handler", "unlink", 0),
                        Event("handler", "respond", response.status) >>
    /\ pc' = "done"
    /\ UNCHANGED << requests, pool, clock, recent >>

----------------------------------------------------------------------------
(* Concurrent requests *)

\* Requests in flight at the same time
Requests == 1..NumRequests

\* Locals of one run of the handler and of the extractTextFromImage call it
\* makes: step is the await the run is suspended at
NoLocals ==
    [step |-> "new", processingMethod |-> "standard", worker |-> 0,
     ocr |-> Pending, standardText |-> <<>>, ai |-> AiPending,
     aiExtractedData |-> NullData, rawExtractedText |-> <<>>,
     status |-> 0, processedDoc |-> <<>>]

----------------------------------------------------------------------------
(* multer: upload.single('file') with the fileFilter *)

\* A request arrives; multer stores the file unless the filter rejects it,
\* in which case the route handler is not run.
upload_single ==
    /\ pc = "idle"
    /\ \E handler \in {"openai", "gemini"}, hasFile \in BOOLEAN,
          mimetype \in MimeTypes, fileOk \in BOOLEAN, bodyOk \in BOOLEAN,
          processingMethod \in {"standard", "ai"}, age \in Ages,
          apiKey \in BOOLEAN :
         /\ ~hasFile => mimetype = "application/pdf" /\ fileOk
         /\ handler = "gemini" => fileOk
         /\ ~bodyOk => processingMethod = "standard" /\ age = 30
         \* OPENAI_API_KEY is read by extractWithOpenAI only
         /\ ~apiKey => /\ handler = "openai" /\ hasFile /\ fileOk /\ bodyOk
                       /\ mimetype \in allowedTypes /\ ~ageOutOfRange(age)
         /\ caller' = handler
         /\ req' = [hasFile |-> hasFile, mimetype |-> mimetype, fileOk |-> fileOk,
                    bodyOk |-> bodyOk, processingMethod |-> processingMethod,
                    age |-> age, apiKey |-> apiKey]
         /\ IF hasFile /\ mimetype \notin allowedTypes
            THEN /\ pc' = "done"
                 /\ responses' = Append(responses, Response(500,
                        "Invalid file type. Only PDF, JPG, and PNG files are allowed.", ""))
                 /\ log' = Append(log, Event("multer", "reject", 500))
                 /\ UNCHANGED << file, fileOnDisk >>
            ELSE /\ pc' = "handler"
                 /\ fileOnDisk' = hasFile
                 /\ \E f \in FilesFor(mimetype) :
                       /\ ~hasFile => f = NoFile
                       /\ file' = f
                 /\ log' = Append(log, Event("multer", "accept", 0))
                 /\ UNCHANGED responses
    /\ UNCHANGED << unlinks, stdOut, aiOut, standardText, aiExtractedData,
                    rawExtractedText, stored, run, workers, remote >>
    /\ UNCHANGED << requests, pool, clock, recent >>

----------------------------------------------------------------------------
(* Direct calls of the exported extraction functions *)

call_extractTextFromDocument ==
    /\ pc = "idle"
    /\ \E mimetype \in MimeTypes, f \in PdfFiles \cup ImageFiles :
         /\ f \in FilesFor(mimetype)
         /\ req' = [NoRequest EXCEPT !.hasFile = TRUE, !.mimetype = mimetype]
         /\ file' = f
    /\ caller' = "extractTextFromDocument"
    /\ fileOnDisk' = TRUE
    /\ pc' = "std_dispatch"
    /\ UNCHANGED << unlinks, responses, stdOut, aiOut, standardText,
                    aiExtractedData, rawExtractedText, stored, run, workers,
                    remote, log >>
    /\ UNCHANGED << requests, pool, clock, recent >>

call_extractWithOpenAI ==
    /\ pc = "idle"
    /\ \E mimetype \in MimeTypes, f \in PdfFiles \cup ImageFiles,
          apiKey \in BOOLEAN :
         /\ f \in FilesFor(mimetype)
         /\ req' = [NoRequest EXCEPT !.hasFile = TRUE, !.mimetype = mimetype,
                                     !.processingMethod = "ai",
                                     !.apiKey = apiKey]
         /\ file' = f
    /\ caller' = "extractWithOpenAI"
    /\ fileOnDisk' = TRUE
    /\ pc' = "ai_dispatch"
    /\ UNCHANGED << unlinks, responses, stdOut, aiOut, standardText,
                    aiExtractedData, rawExtractedText, stored, run, workers,
                    remote, log >>
    /\ UNCHANGED << requests, pool, clock, recent >>

\* The direct call returns to its caller
call_return ==
    /\ \/ pc = "std_return" /\ caller = "extractTextFromDocument"
       \/ pc = "ai_return" /\ caller = "extractWithOpenAI"
    /\ pc' = "done"
    /\ UNCHANGED << caller, req, file, fileOnDisk, unlinks, responses, stdOut,
                    aiOut, standardText, aiExtractedData, rawExtractedText, stored,
                    run, workers, remote, log >>
    /\ UNCHANGED << requests, pool, clock, recent >>

----------------------------------------------------------------------------
(* POST /api/process-document, OpenAI variant of the routes *)

Placeholder ==
    <<"No text could be extracted from the document using standard methods.">>

\* if (!req.file) return res.status(400)
processDocument_noFile ==
    /\ pc = "handler" /\ caller = "openai"
    /\ ~req.hasFile
    /\ responses' = Append(responses, Response(400, "No file uploaded", ""))
    /\ log' = Append(log, Event("handler", "respond", 400))
    /\ pc' = "done"
    /\ UNCHANGED << caller, req, file, fileOnDisk, unlinks, stdOut, aiOut,
                    standardText, aiExtractedData, rawExtractedText, stored, run,
                    workers, remote >>
    /\ UNCHANGED << requests, pool, clock, recent >>

\* fileValidationSchema.safeParse fails
processDocument_invalidFile ==
    /\ pc = "handler" /\ caller = "openai"
    /\ req.hasFile /\ ~req.fileOk
    /\ unlinkAndRespond(Response(400, "Invalid file", ""))
    /\ UNCHANGED << caller, req, file, stdOut, aiOut, standardText,
                    aiExtractedData, rawExtractedText, stored, run, workers, remote >>

\* processDocumentRequestSchema.safeParse fails
processDocument_invalidBody ==
    /\ pc = "handler" /\ caller = "openai"
    /\ req.hasFile /\ req.fileOk /\ ~req.bodyOk
    /\ unlinkAndRespond(Response(400, "Invalid form data", ""))
    /\ UNCHANGED << caller, req, file, stdOut, aiOut, standardText,
                    aiExtractedData, rawExtractedText, stored, run, workers, remote >>

\* Variant of processDocument_invalidAge that responds without the unlink
processDocument_invalidAge_noUnlink ==
    /\ pc = "handler" /\ caller = "openai"
    /\ req.hasFile /\ req.fileOk /\ req.bodyOk
    /\ ageOutOfRange(req.age)
    /\ responses' = Append(responses, Response(400, "Invalid date of birth", ""))
    /\ log' = Append(log, Event("handler", "respond", 400))
    /\ pc' = "done"
    /\ UNCHANGED << caller, req, file, fileOnDisk, unlinks, stdOut, aiOut,
                    standardText, aiExtractedData, rawExtractedText, stored, run,
                    workers, remote >>
    /\ UNCHANGED << requests, pool, clock, recent >>

\* the calculated age is outside 5..120
processDocument_invalidAge ==
    /\ pc = "handler" /\ caller = "openai"
    /\ req.hasFile /\ req.fileOk /\ req.bodyOk
    /\ ageOutOfRange(req.age)
    /\ unlinkAndRespond(Response(400, "Invalid date of birth",
          "Invalid date of birth - calculated age is outside reasonable range"))
    /\ UNCHANGED << caller, req, file, stdOut, aiOut, standardText,
                    aiExtractedData, rawExtractedText, stored, run, workers, remote >>

\* validation passed: await extractTextFromDocument(file.path, file.mimetype)
processDocument_runStandard ==
    /\ pc = "handler" /\ caller = "openai"
    /\ req.hasFile /\ req.fileOk /\ req.bodyOk
    /\ ~ageOutOfRange(req.age)
    /\ pc' = "std_dispatch"
    /\ UNCHANGED << caller, req, file, fileOnDisk, unlinks, responses, stdOut,
                    aiOut, standardText, aiExtractedData, rawExtractedText, stored,
                    run, workers, remote, log >>
    /\ UNCHANGED << requests, pool, clock, recent >>

\* Variant of processDocument_standardFailed that treats the failure like an
\* empty extraction and goes on to AI extraction
processDocument_standardFailed_continue ==
    /\ pc = "std_return" /\ caller = "openai"
    /\ stdOut.state = "threw"
    /\ standardText' = Placeholder
    /\ pc' = "ai_dispatch"
    /\ UNCHANGED << caller, req, file, fileOnDisk, unlinks, responses, stdOut,
                    aiOut, aiExtractedData, rawExtractedText, stored, run, workers,
                    remote, log >>
    /\ UNCHANGED << requests, pool, clock, recent >>

\* catch (standardError): unlink and respond 500
processDocument_standardFailed ==
    /\ pc = "std_return" /\ caller = "openai"
    /\ stdOut.state = "threw"
    /\ unlinkAndRespond(Response(500, "Document processing failed",
          "Could not extract text from the document. Please ensure the file is not corrupted and contains readable text."))
    /\ UNCHANGED << caller, req, file, stdOut, aiOut, standardText,
                    aiExtractedData, rawExtractedText, stored, run, workers, remote >>

\* standard extraction returned: empty text is replaced by the placeholder,
\* then AI extraction is always attempted
\* Variant of processDocument_runAI that removes the upload once the standard
\* extraction is done, before AI extraction starts
processDocument_runAI_unlinkFirst ==
    /\ pc = "std_return" /\ caller = "openai"
    /\ stdOut.state = "returned"
    /\ standardText' =
          IF ~Truthy(stdOut.text) \/ Len(trim(stdOut.text)) = 0
          THEN Placeholder
          ELSE stdOut.text
    /\ aiExtractedData' = NullData
    /\ unlinks' = unlinks + 1
    /\ fileOnDisk' = FALSE
    /\ log' = Append(log, Event("handler", "unlink", 0))
    /\ pc' = "ai_dispatch"
    /\ UNCHANGED << caller, req, file, responses, stdOut,
                    aiOut, rawExtractedText, stored, run, workers, remote >>
    /\ UNCHANGED << requests, pool, clock, recent >>

processDocument_runAI ==
    /\ pc = "std_return" /\ caller = "openai"
    /\ stdOut.state = "returned"
    /\ standardText' =
          IF ~Truthy(stdOut.text) \/ Len(trim(stdOut.text)) = 0
          THEN Placeholder
          ELSE stdOut.text
    /\ aiExtractedData' = NullData
    /\ pc' = "ai_dispatch"
    /\ UNCHANGED << caller, req, file, fileOnDisk, unlinks, responses, stdOut,
                    aiOut, rawExtractedText, stored, run, workers, remote, log >>
    /\ UNCHANGED << requests, pool, clock, recent >>

\* Variant of fallbackReason that never recognises a quota failure
fallbackReason_noQuota(aiError) == "AI service temporarily unavailable"

\* reason of the fallback result
fallbackReason(aiError) ==
    IF includesQuota(IF Truthy(aiError.message) THEN aiError.message
                     ELSE <<"Unknown error">>)
    THEN "AI service quota exceeded"
    ELSE "AI service temporarily unavailable"

\* Variant of fallbackData without the error marker and the error information
fallbackData_noFlag(aiError, text) == AiData(EmptyObject, text, FALSE)

\* the fallback result built in catch (aiError)
fallbackData(aiError, text) ==
    AiData(JsonValue("object",
              { <<"error", "AI extraction failed">>,
                <<"reason", fallbackReason(aiError)>>,
                <<"fallback", "Using standard extraction as fallback">> }),
           text, TRUE)

\* Variant of selectRawExtractedText without the default for an empty rawText
selectRawExtractedText_noDefault(processingMethod, data, text) ==
    IF processingMethod = "ai" /\ ~data.errorOccurred THEN data.rawText ELSE text

\* Variant of selectRawExtractedText that does not look at the method
selectRawExtractedText_anyMethod(processingMethod, data, text) ==
    IF ~data.errorOccurred
    THEN IF Truthy(data.rawText) THEN data.rawText ELSE text
    ELSE text

\* processingMethod === 'ai' && !aiExtractedData.errorOccurred
\*   ? aiExtractedData.rawText || standardText : standardText
selectRawExtractedText(processingMethod, data, text) ==
    IF processingMethod = "ai" /\ ~data.errorOccurred
    THEN IF Truthy(data.rawText) THEN data.rawText ELSE text
    ELSE text

\* extractWithOpenAI returned or threw: the result or the fallback, the
\* primary text, and the call of storage.createProcessedDocument
processDocument_afterAI ==
    /\ pc = "ai_return" /\ caller = "openai"
    /\ LET data == IF aiOut.state = "returned" /\ ~aiOut.data.null
                   THEN aiOut.data
                   ELSE fallbackData(
                          IF aiOut.state = "threw" THEN aiOut.error
                          ELSE Error(<<"AI extraction returned null result">>),
                          standardText)
       IN /\ aiExtractedData' = data
          /\ rawExtractedText' =
                selectRawExtractedText(req.processingMethod, data, standardText)
    /\ pc' = "store"
    /\ UNCHANGED << caller, req, file, fileOnDisk, unlinks, responses, stdOut,
                    aiOut, standardText, stored, run, workers, remote, log >>
    /\ UNCHANGED << requests, pool, clock, recent >>

\* Messages a failing storage write can carry
StorageErrors == { <<"storage unavailable">>, <<"ENOENT: uploads">>,
                   <<"write timeout">>, <<"out of memory">> }

\* catch (processingError): the error text chosen from the details
processingErrorMessage(details) ==
    IF details = <<"ENOENT: uploads">>
    THEN "The uploaded file could not be found or accessed"
    ELSE IF details = <<"storage unavailable">>
    THEN "Failed to save processing results"
    ELSE IF details = <<"write timeout">>
    THEN "Document processing timed out"
    ELSE "An unexpected error occurred while processing your document"

\* MemStorage.createProcessedDocument, then unlink and res.json
createProcessedDocument ==
    /\ pc = "store"
    /\ stored' = Append(stored, Document)
    /\ unlinks' = unlinks + 1
    /\ fileOnDisk' = FALSE
    /\ responses' = Append(responses, Response(200, "ok", ""))
    /\ log' = log \o << Event("storage", "set", 0), Event("handler", "unlink", 0),
                        Event("handler", "respond", 200) >>
    /\ pc' = "done"
    /\ UNCHANGED << caller, req, file, stdOut, aiOut, standardText,
                    aiExtractedData, rawExtractedText, run, workers, remote >>
    /\ UNCHANGED << requests, pool, clock, recent >>

\* Variant of processDocument_storageFailed in which the document is in the
\* map when the write throws
processDocument_storageFailed_afterSet ==
    /\ pc = "store" /\ caller = "openai"
    /\ \E details \in StorageErrors :
         unlinkAndRespond(Response(500, "Document processing failed",
                                   processingErrorMessage(details)))
    /\ stored' = Append(stored, Document)
    /\ UNCHANGED << caller, req, file, stdOut, aiOut, standardText,
                    aiExtractedData, rawExtractedText, run, workers, remote >>

\* the storage write throws: catch (processingError), unlink, respond 500
processDocument_storageFailed ==
    /\ pc = "store" /\ caller = "openai"
    /\ \E details \in StorageErrors :
         unlinkAndRespond(Response(500, "Document processing failed",
                                   processingErrorMessage(details)))
    /\ UNCHANGED << caller, req, file, stdOut, aiOut, standardText,
                    aiExtractedData, rawExtractedText, stored, run, workers, remote >>

----------------------------------------------------------------------------
(* POST /api/process-document, server/routes.ts (Gemini) *)

routes_noFile ==
    /\ pc = "handler" /\ caller = "gemini"
    /\ ~req.hasFile
    /\ responses' = Append(responses, Response(400, "No file uploaded", ""))
    /\ log' = Append(log, Event("handler", "respond", 400))
    /\ pc' = "done"
    /\ UNCHANGED << caller, req, file, fileOnDisk, unlinks, stdOut, aiOut,
                    standardText, aiExtractedData, rawExtractedText, stored, run,
                    workers, remote >>
    /\ UNCHANGED << requests, pool, clock, recent >>

routes_invalidBody ==
    /\ pc = "handler" /\ caller = "gemini"
    /\ req.hasFile /\ ~req.bodyOk
    /\ unlinkAndRespond(Response(400, "Invalid request data", ""))
    /\ UNCHANGED << caller, req, file, stdOut, aiOut, standardText,
                    aiExtractedData, rawExtractedText, stored, run, workers, remote >>

routes_runStandard ==
    /\ pc = "handler" /\ caller = "gemini"
    /\ req.hasFile /\ req.bodyOk
    /\ pc' = "std_dispatch"
    /\ UNCHANGED << caller, req, file, fileOnDisk, unlinks, responses, stdOut,
                    aiOut, standardText, aiExtractedData, rawExtractedText, stored,
                    run, workers, remote, log >>
    /\ UNCHANGED << requests, pool, clock, recent >>

\* extractTextFromDocument threw: catch (processingError)
\* Variant of routes_standardFailed whose catch unlinks and logs the error
\* but sends no response
routes_standardFailed_silent ==
    /\ pc = "std_return" /\ caller = "gemini"
    /\ stdOut.state = "threw"
    /\ unlinks' = unlinks + 1
    /\ fileOnDisk' = FALSE
    /\ log' = Append(log, Event("handler", "unlink", 0))
    /\ pc' = "done"
    /\ UNCHANGED << caller, req, file, responses, stdOut, aiOut, standardText,
                    aiExtractedData, rawExtractedText, stored, run, workers, remote >>
    /\ UNCHANGED << requests, pool, clock, recent >>

routes_standardFailed ==
    /\ pc = "std_return" /\ caller = "gemini"
    /\ stdOut.state = "threw"
    /\ unlinkAndRespond(Response(500, "Failed to process document", ""))
    /\ UNCHANGED << caller, req, file, stdOut, aiOut, standardText,
                    aiExtractedData, rawExtractedText, stored, run, workers, remote >>

\* extractTextFromDocument returned; AI only if processingMethod === 'ai'
routes_afterStandard ==
    /\ pc = "std_return" /\ caller = "gemini"
    /\ stdOut.state = "returned"
    /\ standardText' = stdOut.text
    /\ aiExtractedData' = NullData
    /\ rawExtractedText' = stdOut.text
    /\ pc' = IF req.processingMethod = "ai" THEN "ai_dispatch" ELSE "store"
    /\ UNCHANGED << caller, req, file, fileOnDisk, unlinks, responses, stdOut,
                    aiOut, stored, run, workers, remote, log >>
    /\ UNCHANGED << requests, pool, clock, recent >>

\* extractWithGemini returned or threw
routes_afterAI ==
    /\ pc = "ai_return" /\ caller = "gemini"
    /\ IF aiOut.state = "returned"
       THEN /\ aiExtractedData' = aiOut.data
            /\ rawExtractedText' = IF Truthy(aiOut.data.rawText)
                                   THEN aiOut.data.rawText
                                   ELSE standardText
       ELSE /\ aiExtractedData' = AiData(EmptyObject, standardText, FALSE)
            /\ UNCHANGED rawExtractedText
    /\ pc' = "store"
    /\ UNCHANGED << caller, req, file, fileOnDisk, unlinks, responses, stdOut,
                    aiOut, standardText, stored, run, workers, remote, log >>
    /\ UNCHANGED << requests, pool, clock, recent >>

\* the storage write throws: catch (processingError)
routes_storageFailed ==
    /\ pc = "store" /\ caller = "gemini"
    /\ unlinkAndRespond(Response(500, "Failed to process document", ""))
    /\ UNCHANGED << caller, req, file, stdOut, aiOut, standardText,
                    aiExtractedData, rawExtractedText, stored, run, workers, remote >>

----------------------------------------------------------------------------

----------------------------------------------------------------------------
(* Concurrent runs of the OpenAI-variant handler on uploaded images.  Each  *)
(* action is the code one request runs between two awaits; actions of       *)
(* different requests interleave.                                          *)

\* The variables of the single-request behaviours except the storage
single == << caller, pc, req, file, fileOnDisk, unlinks, responses, stdOut, aiOut,
            standardText, aiExtractedData, rawExtractedText, run, workers,
            remote, log >>

\* What tesseract recognizes in the image of request r
OcrTextsOf(r) == { <<>>, <<"scan ", ToString(r), "\n">> }

\* What extractWithOpenAI does for request r: it returns a result or throws
AiOutcomesOf(r) ==
    { AiReturned(AiData(EmptyObject, <<"vision ", ToString(r)>>, FALSE)),
      AiThrew(extractWithOpenAI_catch(extractImageWithAI_catch(
          [obj |-> TRUE, status |-> 429, type |-> "none", code |-> "none",
           message |-> <<"You exceeded your current quota">>]))) }

\* A worker of the pool: who created it, and who called terminate on it
Worker(r) == [createdBy |-> r, terminatedBy |-> <<>>]

\* The request passes validation and awaits extractTextFromDocument, which
\* enters extractTextFromImage with worker = null
concurrent_receive(r) ==
    /\ requests[r].step = "new"
    /\ \E processingMethod \in {"standard", "ai"} :
         requests' = [requests EXCEPT ![r].step = "createWorker",
                                      ![r].processingMethod = processingMethod]
    /\ UNCHANGED << pool, stored, single, clock, recent >>

\* worker = await createWorker('eng')
concurrent_createWorker(r) ==
    /\ requests[r].step = "createWorker"
    /\ pool' = Append(pool, Worker(r))
    /\ requests' = [requests EXCEPT ![r].step = "recognize",
                                   ![r].worker = Len(pool) + 1]
    /\ UNCHANGED << stored, single, clock, recent >>

\* await worker.recognize(filePath), then return text.trim() or the catch
concurrent_recognize(r) ==
    /\ requests[r].step = "recognize"
    /\ \E outcome \in { Returned(trim(text)) : text \in OcrTextsOf(r) }
                        \cup { Threw(ocrError) } :
         requests' = [requests EXCEPT ![r].step = "terminate", ![r].ocr = outcome]
    /\ UNCHANGED << pool, stored, single, clock, recent >>

\* Variant of concurrent_terminate in which the worker is kept in a variable
\* shared by all calls: the worker terminated is the one created last
concurrent_terminate_sharedWorker(r) ==
    /\ requests[r].step = "terminate"
    /\ pool' = [pool EXCEPT ![Len(pool)].terminatedBy = Append(@, r)]
    /\ IF requests[r].ocr.state = "threw"
       THEN requests' = [requests EXCEPT ![r].step = "done", ![r].status = 500]
       ELSE requests' = [requests EXCEPT
               ![r].step = "ai",
               ![r].standardText =
                   IF ~Truthy(requests[r].ocr.text)
                      \/ Len(trim(requests[r].ocr.text)) = 0
                   THEN Placeholder ELSE requests[r].ocr.text]
    /\ UNCHANGED << stored, single, clock, recent >>

\* Variant of concurrent_terminate that does not wait for recognize to settle
concurrent_terminate_early(r) ==
    /\ requests[r].step \in {"recognize", "terminate"}
    /\ pool' = [pool EXCEPT ![requests[r].worker].terminatedBy = Append(@, r)]
    /\ IF requests[r].step = "recognize"
       THEN UNCHANGED requests
       ELSE IF requests[r].ocr.state = "threw"
       THEN requests' = [requests EXCEPT ![r].step = "done", ![r].status = 500]
       ELSE requests' = [requests EXCEPT
               ![r].step = "ai",
               ![r].standardText =
                   IF ~Truthy(requests[r].ocr.text)
                      \/ Len(trim(requests[r].ocr.text)) = 0
                   THEN Placeholder ELSE requests[r].ocr.text]
    /\ UNCHANGED << stored, single, clock, recent >>

\* finally { if (worker) await worker.terminate() }; then the handler goes
\* on: catch (standardError) responds 500, otherwise standardText is set
\* (placeholder when empty) and extractWithOpenAI is awaited
concurrent_terminate(r) ==
    /\ requests[r].step = "terminate"
    /\ pool' = [pool EXCEPT ![requests[r].worker].terminatedBy = Append(@, r)]
    /\ IF requests[r].ocr.state = "threw"
       THEN requests' = [requests EXCEPT ![r].step = "done", ![r].status = 500]
       ELSE requests' = [requests EXCEPT
               ![r].step = "ai",
               ![r].standardText =
                   IF ~Truthy(requests[r].ocr.text)
                      \/ Len(trim(requests[r].ocr.text)) = 0
                   THEN Placeholder ELSE requests[r].ocr.text]
    /\ UNCHANGED << stored, single, clock, recent >>

\* extractWithOpenAI settles: the result or the fallback, then the primary text
concurrent_extractWithOpenAI(r) ==
    /\ requests[r].step = "ai"
    /\ \E outcome \in AiOutcomesOf(r) :
         LET data == IF outcome.state = "returned" THEN outcome.data
                     ELSE fallbackData(outcome.error, requests[r].standardText)
         IN requests' = [requests EXCEPT
               ![r].step = "store",
               ![r].ai = outcome,
               ![r].aiExtractedData = data,
               ![r].rawExtractedText =
                   selectRawExtractedText(requests[r].processingMethod, data,
                                          requests[r].standardText)]
    /\ UNCHANGED << pool, stored, single, clock, recent >>

\* await storage.createProcessedDocument(...): a fresh id, the document is
\* put in the map and returned; then unlink and res.json
concurrent_createProcessedDocument(r) ==
    /\ requests[r].step = "store"
    /\ LET processedDoc ==
             [id |-> Len(stored) + 1,
              processingMethod |-> requests[r].processingMethod,
              standardExtractedText |-> requests[r].standardText,
              aiExtractedData |-> requests[r].aiExtractedData,
              rawExtractedText |-> requests[r].rawExtractedText]
       IN /\ stored' = Append(stored, processedDoc)
          /\ requests' = [requests EXCEPT ![r].step = "done", ![r].status = 200,
                                         ![r].processedDoc = processedDoc]
    /\ UNCHANGED << pool, single, clock, recent >>

NextConcurrent ==
    \E r \in Requests :
        \/ concurrent_receive(r)
        \/ concurrent_createWorker(r)
        \/ concurrent_recognize(r)
        \/ concurrent_terminate(r)
        \/ concurrent_extractWithOpenAI(r)
        \/ concurrent_createProcessedDocument(r)

----------------------------------------------------------------------------
(* The classifier of extractWithOpenAI applied to any thrown value *)

\* A value is thrown inside the try block of extractWithOpenAI
classifier_throw ==
    /\ pc = "idle"
    /\ \E error \in UpstreamErrors :
          remote' = [remote EXCEPT !.failed = "try", !.upstream = error]
    /\ caller' = "handleOpenAIExtractionError"
    /\ pc' = "ai_catch"
    /\ UNCHANGED << req, file, fileOnDisk, unlinks, responses, stdOut, aiOut,
                    standardText, aiExtractedData, rawExtractedText, stored, run,
                    workers, log, requests, pool, clock, recent >>

\* catch (error) { handleOpenAIExtractionError(error) }: every path throws
handleOpenAIExtractionError ==
    /\ pc = "ai_catch"
    /\ aiOut' = AiThrew(extractWithOpenAI_catch(remote.upstream))
    /\ log' = Append(log, Event("ai", "throw", 0))
    /\ pc' = "ai_return"
    /\ UNCHANGED << caller, req, file, fileOnDisk, unlinks, responses, stdOut,
                    standardText, aiExtractedData, rawExtractedText, stored, run,
                    workers, remote, requests, pool, clock, recent >>

NextClassifier ==
    \/ classifier_throw
    \/ handleOpenAIExtractionError

----------------------------------------------------------------------------
(* server/storage.js: MemStorage under any sequence of calls, and the
   GET /api/processed-documents route *)

\* Number of documents the map holds at most
MaxDocs == 3

\* Latest time the clock reaches
MaxClock == 2

NaN == [nan |-> TRUE, value |-> 0]

Number(n) == [nan |-> FALSE, value |-> n]

\* const limit = req.query.limit ? parseInt(req.query.limit) : 10
\* parseInt of a non-empty string is an integer of either sign or NaN
RouteLimits == { NaN } \cup { Number(n) : n \in (-2..(MaxDocs + 1)) \cup {10} }

NoRecent == [called |-> FALSE, limit |-> Number(10), documents |-> <<>>]

\* docs.sort((a, b) => b.createdAt - a.createdAt): Array.prototype.sort is
\* stable, documents with equal createdAt keep the order of the map
RECURSIVE sortByCreatedAtDescending(_, _)
sortByCreatedAtDescending(docs, t) ==
    IF t < 0 THEN <<>>
    ELSE SelectSeq(docs, LAMBDA d : d.createdAt = t)
            \o sortByCreatedAtDescending(docs, t - 1)

\* Array.prototype.slice(0, end): NaN counts as 0, a negative end counts from
\* the end of the array
slice(docs, end) ==
    LET len == Len(docs)
        relativeEnd == IF end.nan THEN 0 ELSE end.value
        final == IF relativeEnd < 0
                 THEN (IF len + relativeEnd < 0 THEN 0 ELSE len + relativeEnd)
                 ELSE (IF relativeEnd < len THEN relativeEnd ELSE len)
    IN SubSeq(docs, 1, final)

getRecentProcessedDocuments(limit) ==
    slice(sortByCreatedAtDescending(stored, clock), limit)

\* Time passes between two calls
MemStorage_clockTick ==
    /\ clock < MaxClock
    /\ clock' = clock + 1
    /\ UNCHANGED << stored, recent, requests, pool, single >>

\* MemStorage.createProcessedDocument: the document gets a fresh id (here its
\* rank of creation in the map) and createdAt = new Date(); the other fields
\* of doc are carried along and not read by the storage
MemStorage_createProcessedDocument ==
    /\ Len(stored) < MaxDocs
    /\ stored' = Append(stored, [id |-> Len(stored) + 1, createdAt |-> clock])
    /\ UNCHANGED << clock, recent, requests, pool, single >>

MemStorage_clearAll ==
    /\ stored' = <<>>
    /\ UNCHANGED << clock, recent, requests, pool, single >>

\* GET /api/processed-documents
getProcessedDocuments ==
    /\ \E limit \in RouteLimits :
          recent' = [called |-> TRUE, limit |-> limit,
                     documents |-> getRecentProcessedDocuments(limit)]
    /\ UNCHANGED << clock, stored, requests, pool, single >>

NextStorage ==
    \/ MemStorage_clockTick
    \/ MemStorage_createProcessedDocument
    \/ MemStorage_clearAll
    \/ getProcessedDocuments

Init ==
    /\ caller = "none"
    /\ pc = "idle"
    /\ req = NoRequest
    /\ file = NoFile
    /\ fileOnDisk = FALSE
    /\ unlinks = 0
    /\ responses = <<>>
    /\ stdOut = Pending
    /\ aiOut = AiPending
    /\ standardText = <<>>
    /\ aiExtractedData = NullData
    /\ rawExtractedText = <<>>
    /\ stored = <<>>
    /\ run = NoRun
    /\ workers = [created |-> 0, terminateCalls |-> 0]
    /\ remote = NoRemote
    /\ log = <<>>
    /\ requests = [r \in Requests |-> NoLocals]
    /\ pool = <<>>
    /\ clock = 0
    /\ recent = NoRecent

Next ==
    \/ upload_single
    \/ call_extractTextFromDocument
    \/ call_extractWithOpenAI
    \/ call_return
    \/ extractTextFromDocument
    \/ extractTextFromPDF_readFile
    \/ extractTextFromPDF_load
    \/ extractTextFromPDF_page
    \/ extractTextFromPDF_finish
    \/ extractTextFromImage_createWorker
    \/ extractTextFromImage_recognize
    \/ extractTextFromImage_finally
    \/ extractWithOpenAI_noClient
    \/ extractWithAI
    \/ extractPDFText_readFile
    \/ extractPDFText_load
    \/ extractPDFText_page
    \/ extractPDFText_finish
    \/ extractWithGemini_pdfParse
    \/ extractTextWithAI
    \/ extractImageWithAI_readFile
    \/ extractImageWithAI_rawText
    \/ extractImageWithAI_structured
    \/ processDocument_noFile
    \/ processDocument_invalidFile
    \/ processDocument_invalidBody
    \/ processDocument_invalidAge
    \/ processDocument_runStandard
    \/ processDocument_standardFailed
    \/ processDocument_runAI
    \/ processDocument_afterAI
    \/ createProcessedDocument
    \/ processDocument_storageFailed
    \/ routes_noFile
    \/ routes_invalidBody
    \/ routes_runStandard
    \/ routes_standardFailed
    \/ routes_afterStandard
    \/ routes_afterAI
    \/ routes_storageFailed

Spec == Init /\ [][Next]_vars

\* Concurrent requests, from the same initial state
SpecConcurrent == Init /\ [][NextConcurrent]_vars

\* The requests when every awaited operation settles: a step that is enabled
\* (the continuation of an await whose operation returned or threw) is
\* eventually taken by the event loop
SpecLive == Init /\ [][Next]_vars /\ WF_vars(Next)

\* The classifier on every thrown value
SpecClassifier == Init /\ [][NextClassifier]_vars

\* MemStorage and the route that lists the documents
SpecStorage == Init /\ [][NextStorage]_vars

----------------------------------------------------------------------------
(* Properties *)

Handlers == {"openai", "gemini"}

Happened(event) == \E i \in 1..Len(log) : log[i] = event

\* Position of the first occurrence of an event in the log, 0 if none
FirstIndex(event) ==
    IF Happened(event)
    THEN CHOOSE i \in 1..Len(log) :
            log[i] = event /\ \A j \in 1..(i - 1) : log[j] # event
    ELSE 0

StorageThrew == Happened(Event("storage", "throw", 0))

Responded == pc = "done" /\ Len(responses) = 1

Succeeded == Responded /\ responses[1].status = 200

\* C1: in the OpenAI-variant handler, a request with processingMethod 'ai'
\* whose standard extraction returned and whose AI extraction threw is
\* answered with a success response as long as the storage write itself does
\* not throw, and the stored document has aiExtractedData.errorOccurred = true,
\* aiExtractedData.rawText = standardText and rawExtractedText = standardText.
C1_AiFailureFallsBack ==
    ( /\ caller = "openai"
      /\ req.processingMethod = "ai"
      /\ stdOut.state = "returned"
      /\ aiOut.state = "threw"
      /\ pc \in {"store", "done"} )
    => /\ aiExtractedData.errorOccurred = TRUE
       /\ aiExtractedData.rawText = standardText
       /\ rawExtractedText = standardText
       /\ (pc = "done" /\ ~StorageThrew) =>
             /\ Succeeded
             /\ Len(stored) = 1
             /\ stored[1].aiExtractedData.errorOccurred = TRUE
             /\ stored[1].aiExtractedData.rawText = standardText
             /\ stored[1].rawExtractedText = standardText
             /\ stored[1].standardExtractedText = standardText

C1_Witness ==
    /\ caller = "openai" /\ req.processingMethod = "ai"
    /\ aiOut.state = "threw" /\ remote.failed = "rawText"
    /\ Succeeded
    /\ Len(stored) = 1 /\ stored[1].aiExtractedData.errorOccurred

\* C2: when extractTextFromDocument throws, both handlers answer with an
\* error response whatever the requested method is, the AI pipeline is never
\* started and no document is stored.
C2_StandardFailureIsFatal ==
    (caller \in Handlers /\ stdOut.state = "threw")
    => /\ pc \in {"std_return", "done"}
       /\ aiOut = AiPending
       /\ remote = NoRemote
       /\ ~Happened(Event("ai", "dispatch", 0))
       /\ stored = <<>>
       /\ pc = "done" => Responded /\ responses[1].status = 500

C2_Witness ==
    /\ caller = "openai" /\ req.processingMethod = "ai"
    /\ stdOut.state = "threw"
    /\ Responded /\ responses[1].status = 500
    /\ stored = <<>>

InExtractTextFromImage == pc \in {"ocr_createWorker", "ocr_recognize", "ocr_terminate"}

\* C4: on every exit path of extractTextFromImage (recognition returned,
\* recognition threw, createWorker threw) the number of workers acquired
\* equals the number of terminate calls; while it runs at most one worker is
\* held and terminate is never called more often than workers were acquired.
C4_WorkerReleasedOnce ==
    /\ workers.terminateCalls <= workers.created
    /\ workers.created <= 1
    /\ ~InExtractTextFromImage => workers.created = workers.terminateCalls
    /\ pc = "ocr_terminate" =>
          workers.created = 1 /\ workers.terminateCalls = 0 /\ run.hasWorker

C4_Witness ==
    /\ pc = "std_return"
    /\ Happened(Event("ocr", "recognize", 0))
    /\ stdOut.state = "threw" /\ stdOut.error = wrapExtractionError(ocrError)
    /\ workers.created = 1 /\ workers.terminateCalls = 1

\* C5: every request that reached a handler with an uploaded file has had its
\* temporary file unlinked by the time the response is sent, on every exit
\* path: the unlink precedes the response and the file is gone.
C5_FileUnlinkedBeforeResponse ==
    (caller \in Handlers /\ req.hasFile /\ req.mimetype \in allowedTypes
       /\ responses # <<>>)
    => /\ unlinks >= 1
       /\ ~fileOnDisk
       /\ FirstIndex(Event("handler", "unlink", 0)) > 0
       /\ FirstIndex(Event("handler", "unlink", 0))
             < FirstIndex(Event("handler", "respond", responses[1].status))

C5_Witness ==
    /\ caller = "openai" /\ req.hasFile /\ StorageThrew
    /\ Responded /\ responses[1].status = 500
    /\ unlinks = 1 /\ ~fileOnDisk

\* Callers whose AI pipeline is extractWithOpenAI
OpenAICallers == {"openai", "extractWithOpenAI"}

Contains(message, tokens) == \E i \in 1..Len(message) : message[i] \in tokens

\* Kind of an error thrown by extractWithOpenAI, read from the guidance its
\* message carries (anywhere in the message)
ThrownKind(error) ==
    IF Contains(error.message,
         { "AI service quota exceeded. Please check your OpenAI account usage limits or try using Standard Extraction instead.",
           "AI service quota exceeded for image processing. Please check your OpenAI account limits.",
           "AI service quota exceeded for text processing. Please check your OpenAI account limits." })
    THEN "QuotaExceeded"
    ELSE IF Contains(error.message,
         { "AI service authentication failed. Please check your OpenAI API key configuration." })
    THEN "AuthFailure"
    ELSE IF Contains(error.message,
         { "AI service temporarily unavailable. Please try Standard Extraction or try again later." })
    THEN "ServiceUnavailable"
    ELSE IF Contains(error.message,
         { "Text content too large for AI processing. Please try with a smaller document." })
    THEN "ContentTooLarge"
    ELSE "GenericFailure"

\* Kind the classification table assigns to the signals of an upstream error,
\* rows taken in the order of the table
TableKind(error) ==
    IF error.status = 429 \/ error.type = "insufficient_quota"
       \/ error.code = "rate_limit_exceeded"
    THEN "QuotaExceeded"
    ELSE IF error.status = 401 \/ error.type = "invalid_request_error"
            \/ error.code = "invalid_api_key"
    THEN "AuthFailure"
    ELSE IF error.status >= 500
    THEN "ServiceUnavailable"
    ELSE IF error.status = 400 /\ error.code = "context_length_exceeded"
    THEN "ContentTooLarge"
    ELSE "GenericFailure"

\* C6: whenever a remote model call fails (raw-text pass, structured pass on
\* an image, structured pass on text), the error extractWithOpenAI throws is
\* of the kind the classification table assigns to the upstream error.
C6_RemoteFailureClassified ==
    (caller \in OpenAICallers /\ remote.failed # "none" /\ aiOut.state = "threw")
    => ThrownKind(aiOut.error) = TableKind(remote.upstream)

\* C7: for a MIME type outside application/pdf, image/jpeg, image/jpg and
\* image/png, extractTextFromDocument and extractWithOpenAI throw the
\* unsupported-type error before any file read, OCR worker or remote call.
C7_OnlyFourTypesDispatched ==
    ( /\ caller \in {"extractTextFromDocument", "extractWithOpenAI"}
      /\ req.mimetype \notin allowedTypes )
    => /\ pc \in {"std_dispatch", "ai_dispatch", "std_return", "ai_return", "done"}
       /\ workers.created = 0
       /\ remote.calls = <<>>
       /\ ~Happened(Event("std", "readFile", 0))
       /\ ~Happened(Event("ai", "readFile", 0))
       /\ stdOut.state # "returned" /\ aiOut.state # "returned"
       /\ stdOut.state = "threw" =>
             stdOut.error.message =
                <<"Failed to extract text: ", "Unsupported file type: ", req.mimetype>>
       /\ aiOut.state = "threw" =>
             aiOut.error.message =
                <<"AI extraction failed: ", "Unsupported file type for AI extraction: ",
                  req.mimetype>> \o Suggestion

\* C8 as stated: for a supported MIME type extractTextFromDocument never
\* returns an empty or whitespace-only string.
C8_NeverReturnsEmpty ==
    (req.mimetype \in allowedTypes /\ stdOut.state = "returned")
    => Truthy(trim(stdOut.text))

AllPagesBlank ==
    \A i \in 1..Len(file.pages) :
        ~file.pages[i].throws /\ ~Truthy(trim(join(file.pages[i].items)))

\* C8, amended: for application/pdf extractTextFromDocument returns a string
\* that is non-empty after trimming or throws, and a PDF whose pages all
\* yield blank text throws; for an image it returns the trimmed OCR text,
\* which is the empty string when OCR recognizes no text and is never
\* whitespace-only.
C8_EmptyOnlyForImages ==
    /\ (req.mimetype \in allowedTypes /\ stdOut.state = "returned")
       => /\ stdOut.text = trim(stdOut.text)
          /\ req.mimetype = "application/pdf" => Truthy(stdOut.text)
    /\ (req.mimetype = "application/pdf" /\ stdOut.state # "pending"
          /\ AllPagesBlank)
       => stdOut.state = "threw"

C8_Witness ==
    /\ req.mimetype = "image/png"
    /\ Happened(Event("ocr", "recognize", 0))
    /\ stdOut.state = "returned" /\ stdOut.text = <<>>
    /\ workers.terminateCalls = 1

\* C9 as stated: in every successful request rawExtractedText equals
\* aiExtractedData.rawText when AI was requested and the AI pipeline returned,
\* and standardExtractedText otherwise.
C9_RawTextIsAiRawText ==
    (caller \in Handlers /\ Succeeded)
    => stored[1].rawExtractedText =
         IF req.processingMethod = "ai" /\ aiOut.state = "returned"
         THEN stored[1].aiExtractedData.rawText
         ELSE stored[1].standardExtractedText

\* C9, amended: in every successful request rawExtractedText equals
\* aiExtractedData.rawText when AI was requested, the AI pipeline returned
\* and its rawText is not the empty string, and standardExtractedText in
\* every other case, an empty rawText included.
C9_RawTextSelection ==
    (caller \in Handlers /\ Succeeded)
    => /\ Len(stored) = 1
       /\ stored[1].rawExtractedText =
            IF /\ req.processingMethod = "ai"
               /\ aiOut.state = "returned"
               /\ stored[1].aiExtractedData.rawText # <<>>
            THEN stored[1].aiExtractedData.rawText
            ELSE stored[1].standardExtractedText

C9_Witness ==
    /\ caller = "openai" /\ Succeeded
    /\ req.processingMethod = "ai" /\ aiOut.state = "returned"
    /\ stored[1].aiExtractedData.rawText = <<>>
    /\ stored[1].rawExtractedText = stored[1].standardExtractedText
    /\ stored[1].rawExtractedText # <<>>

ScenarioBStructured == <<"{\"invoiceId\":\"INV-001\",\"date\":\"Jan 5\"}">>

\* C10: when processingMethod is 'ai' and the AI pipeline returns r, the
\* stored aiExtractedData is r unchanged and rawExtractedText is r.rawText
\* when that is non-empty and standardText otherwise; for an image whose
\* raw-text answer is "INV-001 Jan 5" and whose structured answer is
\* {"invoiceId":"INV-001","date":"Jan 5"}, both are stored as answered.
C10_AiResultStoredUnchanged ==
    (caller \in Handlers /\ req.processingMethod = "ai"
       /\ aiOut.state = "returned" /\ Succeeded)
    => /\ stored[1].aiExtractedData = aiOut.data
       /\ stored[1].rawExtractedText =
            IF Truthy(aiOut.data.rawText) THEN aiOut.data.rawText ELSE standardText
       /\ ( /\ startsWithImage(req.mimetype)
            /\ remote.rawAnswer = Content(<<"INV-001 Jan 5">>)
            /\ remote.structuredAnswer = Content(ScenarioBStructured) )
          => /\ stored[1].aiExtractedData.structuredData =
                  JsonValue("object",
                     { <<"invoiceId", "INV-001">>, <<"date", "Jan 5">> })
             /\ stored[1].aiExtractedData.rawText = <<"INV-001 Jan 5">>
             /\ stored[1].rawExtractedText = <<"INV-001 Jan 5">>

C10_Witness ==
    /\ caller = "openai" /\ req.processingMethod = "ai" /\ Succeeded
    /\ req.mimetype = "image/jpeg"
    /\ remote.calls = <<"rawText", "structured">>
    /\ remote.rawAnswer = Content(<<"INV-001 Jan 5">>)
    /\ remote.structuredAnswer = Content(ScenarioBStructured)
    /\ stored[1].rawExtractedText = <<"INV-001 Jan 5">>

\* C11: for an image request with processingMethod 'ai' whose raw-text remote
\* call is rejected with status 429, extractWithOpenAI throws an error of the
\* quota kind, the request is answered with success (as long as the storage
\* write itself does not throw), and the stored document has
\* aiExtractedData.errorOccurred = true, the reason "AI service quota
\* exceeded" and rawExtractedText equal to the standard (OCR) text.
C11_QuotaFailureFallsBack ==
    ( /\ caller = "openai"
      /\ startsWithImage(req.mimetype)
      /\ req.processingMethod = "ai"
      /\ remote.failed = "rawText"
      /\ remote.upstream.status = 429
      /\ pc \in {"ai_return", "store", "done"} )
    => /\ aiOut.state = "threw"
       /\ ThrownKind(aiOut.error) = "QuotaExceeded"
       /\ standardText = IF Truthy(stdOut.text) THEN stdOut.text ELSE Placeholder
       /\ pc \in {"store", "done"} =>
             /\ aiExtractedData.errorOccurred
             /\ <<"reason", "AI service quota exceeded">>
                   \in aiExtractedData.structuredData.members
             /\ rawExtractedText = standardText
       /\ (pc = "done" /\ ~StorageThrew) =>
             /\ Succeeded
             /\ Len(stored) = 1
             /\ stored[1].aiExtractedData.errorOccurred
             /\ <<"reason", "AI service quota exceeded">>
                   \in stored[1].aiExtractedData.structuredData.members
             /\ stored[1].rawExtractedText = standardText
             /\ stored[1].standardExtractedText = standardText

C11_Witness ==
    /\ caller = "openai" /\ req.mimetype = "image/jpeg"
    /\ req.processingMethod = "ai"
    /\ remote.failed = "rawText" /\ remote.upstream.status = 429
    /\ Succeeded
    /\ Truthy(stdOut.text)
    /\ stored[1].rawExtractedText = stdOut.text
    /\ stored[1].aiExtractedData.errorOccurred

\* The structured-data call was the last remote call and it was answered
StructuredAnswered ==
    /\ remote.calls # <<>>
    /\ remote.calls[Len(remote.calls)] \in {"structured", "text"}
    /\ remote.failed = "none"

\* The text the helper was given or obtained: the raw-text answer for an
\* image, the extracted document text for a PDF
HelperRawText ==
    IF remote.calls[Len(remote.calls)] = "structured"
    THEN contentOrEmpty(remote.rawAnswer)
    ELSE run.extractedText

\* C12: whenever the structured-data answer is absent, empty or not valid
\* JSON, extractImageWithAI and extractTextWithAI return structuredData = {}
\* together with the raw text, and the AI pipeline does not throw.
C12_ParseFailureIsRecovered ==
    ( /\ StructuredAnswered
      /\ \/ ~contentTruthy(remote.structuredAnswer)
         \/ ~JSONparse(remote.structuredAnswer.text).ok )
    => /\ aiOut.state = "returned"
       /\ ~aiOut.data.null
       /\ aiOut.data.structuredData = EmptyObject
       /\ aiOut.data.rawText = HelperRawText

C12_Witness ==
    /\ StructuredAnswered
    /\ remote.structuredAnswer = Content(<<"not json">>)
    /\ remote.rawAnswer = Content(<<"INV-001 Jan 5">>)
    /\ aiOut.state = "returned"
    /\ aiOut.data.structuredData = EmptyObject
    /\ aiOut.data.rawText = <<"INV-001 Jan 5">>

\* C13: whenever the structured-data answer parses as JSON but is not a JSON
\* object, the returned structuredData is the empty mapping {}, and every
\* result the AI pipeline returns has a key-to-value mapping as
\* structuredData.
C13_StructuredDataIsMapping ==
    (StructuredAnswered /\ aiOut.state = "returned")
    => /\ aiOut.data.structuredData.kind = "object"
       /\ ( /\ contentTruthy(remote.structuredAnswer)
            /\ JSONparse(remote.structuredAnswer.text).ok
            /\ JSONparse(remote.structuredAnswer.text).value.kind # "object" )
          => aiOut.data.structuredData = EmptyObject

\* sub occurs in s as a run of consecutive elements
IsInfix(sub, s) ==
    \E i \in 0..(Len(s) - Len(sub)) : SubSeq(s, i + 1, i + Len(sub)) = sub

\* pageText of page i
PageText(i) == join(file.pages[i].items)

NonBlankPages ==
    { i \in 1..Len(file.pages) :
        ~file.pages[i].throws /\ Truthy(trim(PageText(i))) }

\* Retrieval throws for some page and another page yields non-blank text
PartialFailure ==
    /\ \E i \in 1..Len(file.pages) : file.pages[i].throws
    /\ NonBlankPages # {}

\* C14: for a PDF that loads, in which retrieval throws for one or more pages
\* while another page yields non-blank text, extractTextFromPDF and
\* extractPDFText do not fail: each returns a non-empty string that contains
\* the text of every page that yielded non-blank text.
C14_PartialFailureTolerated ==
    /\ ( /\ req.mimetype = "application/pdf"
         /\ Happened(Event("std", "getDocument", 0)) /\ file.loadable
         /\ PartialFailure
         /\ stdOut.state # "pending" )
       => /\ stdOut.state = "returned"
          /\ Truthy(trim(stdOut.text))
          /\ \A i \in NonBlankPages : IsInfix(PageText(i), stdOut.text)
    /\ ( /\ req.mimetype = "application/pdf" /\ Provider = "openai"
         /\ Happened(Event("ai", "getDocument", 0)) /\ file.loadable
         /\ PartialFailure
         /\ pc \notin {"aipdf_load", "aipdf_page"} )
       => /\ pc = "ai_text_call" \/ remote.calls = <<"text">>
          /\ Truthy(trim(run.extractedText))
          /\ \A i \in NonBlankPages : IsInfix(PageText(i), run.extractedText)

C14_Witness ==
    /\ caller = "extractTextFromDocument"
    /\ Len(file.pages) = 2
    /\ file.pages[1].throws
    /\ file.pages[2].items = << <<"World">> >>
    /\ stdOut.state = "returned"
    /\ IsInfix(<<"World">>, stdOut.text)
    /\ IsInfix(<<"[Error extracting text from this page]">>, stdOut.text)

\* The getPage steps of one extractor, in the order they were taken
PagesFetched(component) ==
    SelectSeq(log, LAMBDA e : e[1] = component /\ e[2] = "getPage")

\* Contributions of pages 1..n in page order
RECURSIVE StdConcat(_)
StdConcat(n) ==
    IF n = 0 THEN <<>>
    ELSE StdConcat(n - 1) \o pageContribution(n, file.pages[n])

RECURSIVE AiConcat(_)
AiConcat(n) ==
    IF n = 0 THEN <<>>
    ELSE AiConcat(n - 1) \o aiPageContribution(file.pages[n])

\* Position of the first occurrence of token in s, 0 when there is none
FirstPos(token, s) ==
    IF \E i \in 1..Len(s) : s[i] = token
    THEN CHOOSE i \in 1..Len(s) :
            s[i] = token /\ \A j \in 1..(i - 1) : s[j] # token
    ELSE 0

\* C15: the pages of a PDF are fetched one after the other in increasing page
\* number, and the returned text holds the contributions of the pages (text
\* or placeholder) in page order: the contribution of page N comes after that
\* of every page M < N.
C15_PagesInOrder ==
    /\ \A c \in {"std", "ai"} :
          LET fetched == PagesFetched(c) IN
          \A i \in 1..Len(fetched) : fetched[i][3] = i
    /\ pc = "pdf_page" => run.extractedText = StdConcat(run.pageNum - 1)
    /\ (req.mimetype = "application/pdf" /\ stdOut.state = "returned")
       => /\ stdOut.text = trim(StdConcat(Len(file.pages)))
          /\ \A m, n \in 1..Len(file.pages) :
                ( /\ m < n
                  /\ pageContribution(m, file.pages[m]) # <<>>
                  /\ pageContribution(n, file.pages[n]) # <<>> )
                => /\ FirstPos(ToString(m), stdOut.text) > 0
                   /\ FirstPos(ToString(m), stdOut.text)
                        < FirstPos(ToString(n), stdOut.text)
    /\ pc = "aipdf_page" => run.extractedText = AiConcat(run.pageNum - 1)
    /\ (pc = "ai_text_call" /\ Provider = "openai")
       => run.extractedText = trim(AiConcat(Len(file.pages)))

C15_Witness ==
    /\ caller = "extractTextFromDocument"
    /\ Len(file.pages) = 2
    /\ file.pages[1].items = << <<"Hello">> >>
    /\ file.pages[2].items = << <<"World">> >>
    /\ PagesFetched("std") = << Event("std", "getPage", 1), Event("std", "getPage", 2) >>
    /\ stdOut.state = "returned"
    /\ FirstPos("Hello", stdOut.text) < FirstPos("World", stdOut.text)

\* The 2-page PDF whose pages yield "Hello" and "World"
HelloWorldPdf ==
    /\ req.mimetype = "application/pdf"
    /\ Len(file.pages) = 2
    /\ ~file.pages[1].throws /\ file.pages[1].items = << <<"Hello">> >>
    /\ ~file.pages[2].throws /\ file.pages[2].items = << <<"World">> >>

C17_PreExtractionFailureUnclassified ==
    ( /\ caller \in OpenAICallers
      /\ req.mimetype = "application/pdf"
      /\ aiOut.state = "threw"
      /\ remote.failed = "none" )
    => /\ remote.calls = <<>>
       /\ Head(aiOut.error.message) = "Failed to extract text from PDF: "
       /\ aiOut.error.message[Len(aiOut.error.message)] # Suggestion[1]

\* C18: every error extractTextFromDocument throws (unsupported MIME type,
\* PDF load or no-content failure, OCR failure, failure while terminating
\* the OCR worker) has a message that begins with 'Failed to extract text: ',
\* and the unsupported-type error names the MIME type that was requested.
C18_UniformPrefix ==
    stdOut.state = "threw"
    => /\ stdOut.error.message # <<>>
       /\ Head(stdOut.error.message) = "Failed to extract text: "
       /\ ( /\ req.mimetype # "application/pdf"
            /\ ~startsWithImage(req.mimetype) )
          => IsInfix(<<req.mimetype>>, stdOut.error.message)

C18_Witness ==
    /\ caller = "extractTextFromDocument"
    /\ req.mimetype = "image/png"
    /\ workers.created = 1 /\ workers.terminateCalls = 1
    /\ run.completion.state = "returned"
    /\ stdOut.state = "threw"
    /\ Head(stdOut.error.message) = "Failed to extract text: "

\* What request r stores when it runs alone, from what the environment did
\* for it: the OCR outcome and the outcome of extractWithOpenAI
AloneStandardText(r) ==
    IF Truthy(requests[r].ocr.text) THEN requests[r].ocr.text ELSE Placeholder

AloneAiExtractedData(r) ==
    IF requests[r].ai.state = "returned" THEN requests[r].ai.data
    ELSE fallbackData(requests[r].ai.error, AloneStandardText(r))

AloneRawExtractedText(r) ==
    selectRawExtractedText(requests[r].processingMethod,
                           AloneAiExtractedData(r), AloneStandardText(r))

\* C19: with concurrent requests interleaved at their awaits, every OCR
\* worker is terminated only by the request that created it and at most
\* once, a request that has finished has terminated its own worker, and the
\* document stored for a request is the one it produces when run alone:
\* nothing of another request's text, AI data or error state is in it.
C19_RequestsAreIsolated ==
    /\ \A w \in 1..Len(pool) :
          /\ Len(pool[w].terminatedBy) <= 1
          /\ \A i \in 1..Len(pool[w].terminatedBy) :
                pool[w].terminatedBy[i] = pool[w].createdBy
    /\ \A r \in Requests :
          /\ Cardinality({ w \in 1..Len(pool) : pool[w].createdBy = r }) <= 1
          /\ requests[r].worker # 0 => pool[requests[r].worker].createdBy = r
          /\ requests[r].step \in {"ai", "store", "done"} =>
                pool[requests[r].worker].terminatedBy = << r >>
          /\ (requests[r].step = "done" /\ requests[r].status = 500) =>
                /\ requests[r].ocr.state = "threw"
                /\ requests[r].processedDoc = <<>>
          /\ (requests[r].step = "done" /\ requests[r].status = 200) =>
                LET doc == requests[r].processedDoc IN
                /\ requests[r].ocr.state = "returned"
                /\ doc.id \in 1..Len(stored) /\ stored[doc.id] = doc
                /\ doc.processingMethod = requests[r].processingMethod
                /\ doc.standardExtractedText = AloneStandardText(r)
                /\ doc.aiExtractedData = AloneAiExtractedData(r)
                /\ doc.rawExtractedText = AloneRawExtractedText(r)
    /\ Len(stored) = Cardinality({ r \in Requests : requests[r].status = 200 })
    /\ \A i \in 1..Len(stored) : stored[i].id = i

\* Two requests overlapped (the second worker was created before the first
\* was terminated), one failed in OCR and the other stored its own texts
C19_Witness ==
    /\ Len(pool) = 2
    /\ pool[1].createdBy = 1 /\ pool[2].createdBy = 2
    /\ requests[2].worker = 2 /\ requests[1].worker = 1
    /\ requests[1].step = "done" /\ requests[1].status = 500
    /\ requests[2].step = "done" /\ requests[2].status = 200
    /\ requests[2].processingMethod = "ai"
    /\ requests[2].processedDoc.rawExtractedText = <<"vision ", "2">>
    /\ requests[2].processedDoc.standardExtractedText = <<"scan ", "2">>

\* Positions inside extractTextFromDocument and extractWithOpenAI /
\* extractWithGemini, up to the point where they settle
ExtractorPositions ==
    { "std_dispatch", "pdf_readFile", "pdf_load", "pdf_page",
      "ocr_createWorker", "ocr_recognize", "ocr_terminate",
      "ai_dispatch", "aipdf_readFile", "aipdf_load", "aipdf_page",
      "gem_pdfParse", "ai_text_call", "ai_image_readFile", "ai_raw_call",
      "ai_structured_call" }

\* C20: extractTextFromDocument and extractWithOpenAI only read the file at
\* filePath: no step of theirs, on a successful or a failing path, deletes
\* or changes it, so after a direct call the file is still there; within a
\* request every removal of the uploaded file is an unlink by the handler.
C20_ExtractorsOnlyRead ==
    /\ [][ (pc \in ExtractorPositions) =>
              (fileOnDisk' = fileOnDisk /\ file' = file /\ unlinks' = unlinks) ]_vars
    /\ [][ (fileOnDisk /\ ~fileOnDisk') =>
              /\ caller \in Handlers
              /\ unlinks' = unlinks + 1
              /\ Len(log') > Len(log)
              /\ \E i \in (Len(log) + 1)..Len(log') :
                    log'[i] = Event("handler", "unlink", 0) ]_vars
    /\ []( caller \in {"extractTextFromDocument", "extractWithOpenAI"}
             => fileOnDisk /\ unlinks = 0 )

C20_Witness ==
    /\ caller = "openai" /\ pc = "store"
    /\ Happened(Event("std", "readFile", 0))
    /\ Happened(Event("ai", "readFile", 0))
    /\ stdOut.state = "returned" /\ aiOut.state = "threw"
    /\ fileOnDisk /\ unlinks = 0

\* OPENAI_API_KEY is not set in the environment of the call
NoApiKey == caller \in OpenAICallers /\ ~req.apiKey

\* Steps inside extractPDFText, extractTextWithAI and extractImageWithAI
AiInnerPositions ==
    { "aipdf_readFile", "aipdf_load", "aipdf_page", "ai_text_call",
      "ai_image_readFile", "ai_raw_call", "ai_structured_call" }

\* C21: when no OpenAI API key is configured, a call of extractWithOpenAI
\* throws the 'AI extraction is disabled' error without entering the dispatch:
\* no file read, no PDF load, no page retrieval and no remote call happens and
\* the call never returns a result; standard extraction is untouched, so a
\* request of the always-attempt-AI handler still stores the standard text,
\* with the error fallback as aiExtractedData.
C21_NoKeyDisablesAiOnly ==
    NoApiKey
    => /\ pc \notin AiInnerPositions
       /\ remote = NoRemote
       /\ ~Happened(Event("ai", "readFile", 0))
       /\ ~Happened(Event("ai", "getDocument", 0))
       /\ aiOut.state # "returned"
       /\ aiOut.state = "threw" =>
             /\ aiOut.error.message = DisabledMessage
             /\ Contains(aiOut.error.message, {"AI extraction is disabled"})
       /\ Happened(Event("ai", "dispatch", 0)) =>
             /\ aiOut.state = "threw"
             /\ Happened(Event("ai", "disabled", 0))
       /\ caller = "openai" =>
             /\ (pc = "done" /\ stdOut.state = "returned" /\ ~StorageThrew) =>
                   /\ Succeeded
                   /\ stored[1].standardExtractedText = standardText
                   /\ stored[1].rawExtractedText = standardText
                   /\ stored[1].aiExtractedData.errorOccurred

C21_Witness ==
    /\ NoApiKey /\ caller = "openai" /\ Succeeded
    /\ aiOut.state = "threw"
    /\ Happened(Event("ai", "disabled", 0))
    /\ stored[1].standardExtractedText = stdOut.text
    /\ stored[1].standardExtractedText # Placeholder

\* C22 as stated: the answer of getRecentProcessedDocuments(limit) holds at
\* most `limit` documents (none for a limit that is negative or not a number)
\* and lists them newest first: a document created later comes before every
\* document created earlier.
C22_RecentNewestFirst ==
    recent.called
    => LET docs == recent.documents
           most == IF recent.limit.nan \/ recent.limit.value < 0 THEN 0
                   ELSE recent.limit.value
       IN /\ Len(docs) <= most
          /\ \A i, j \in 1..Len(docs) : i < j => docs[i].id > docs[j].id

\* C23: for an image, extractImageWithAI issues the raw-text call first and
\* the structured-data call only once the raw-text call has returned an
\* answer; each call is issued at most once, a failed call is the last one,
\* and after a failed raw-text call no structured-data call is issued.
C23_RawThenStructured ==
    (caller \in OpenAICallers /\ startsWithImage(req.mimetype))
    => /\ remote.calls \in { <<>>, <<"rawText">>, <<"rawText", "structured">> }
       /\ pc = "ai_structured_call" =>
             /\ remote.calls = <<"rawText">>
             /\ remote.failed = "none"
             /\ run.rawText = contentOrEmpty(remote.rawAnswer)
       /\ remote.failed = "rawText" =>
             /\ remote.calls = <<"rawText">>
             /\ aiOut.state = "threw"
             /\ pc \notin {"ai_raw_call", "ai_structured_call"}
       /\ remote.failed = "structured" =>
             /\ remote.calls = <<"rawText", "structured">>
             /\ aiOut.state = "threw"
             /\ pc \notin {"ai_raw_call", "ai_structured_call"}
       /\ Len(remote.calls) = 2 => pc \notin {"ai_raw_call", "ai_structured_call"}

C23_Witness ==
    /\ caller = "openai" /\ startsWithImage(req.mimetype)
    /\ remote.calls = <<"rawText", "structured">>
    /\ remote.failed = "structured"
    /\ pc = "done"

\* C24: for a PDF the OpenAI pipeline issues no raw-text or vision call; the
\* one remote call it issues is the structured-data call on text, issued once
\* the local extraction has finished, whose content is the locally extracted
\* text and no image or file bytes; no call is issued when the local
\* extraction fails; the rawText of a returned result is the locally extracted
\* text, whatever the model answers.
C24_PdfTextOnly ==
    (caller \in OpenAICallers /\ req.mimetype = "application/pdf")
    => /\ remote.calls \in { <<>>, <<"text">> }
       /\ remote.calls = <<"text">> =>
             /\ pc \notin {"aipdf_readFile", "aipdf_load", "aipdf_page", "ai_text_call"}
             /\ Happened(Event("ai", "getDocument", 0))
             /\ FirstIndex(Event("ai", "getDocument", 0))
                   < FirstIndex(Event("ai", "remote text", 0))
             /\ remote.sent = << TextContent(run.extractedText) >>
             /\ ~remote.sent[1].image
             /\ run.extractedText = trim(AiConcat(Len(file.pages)))
             /\ Truthy(run.extractedText)
       /\ aiOut.state = "returned" =>
             /\ remote.calls = <<"text">>
             /\ aiOut.data.rawText = run.extractedText
       /\ pc = "ai_text_call" => remote.calls = <<>>
       /\ (aiOut.state = "threw" /\ remote.failed = "none") => remote.calls = <<>>

C24_Witness ==
    /\ caller = "openai" /\ req.mimetype = "application/pdf"
    /\ aiOut.state = "returned"
    /\ remote.calls = <<"text">>
    /\ remote.structuredAnswer = Content(<<"not json">>)
    /\ aiOut.data.rawText = run.extractedText

\* Number of rows of the classifier (quota, authentication, unavailable) the
\* signals of a thrown value match
RowsMatched(error) ==
    (IF error.status = 429 \/ error.type = "insufficient_quota"
        \/ error.code = "rate_limit_exceeded" THEN 1 ELSE 0)
    + (IF error.status = 401 \/ error.type = "invalid_request_error"
          \/ error.code = "invalid_api_key" THEN 1 ELSE 0)
    + (IF error.status >= 500 THEN 1 ELSE 0)

AiNoTextFound ==
    /\ aiOut.state = "threw"
    /\ Contains(aiOut.error.message, {"No text content found in PDF document"})

\* C26 as stated: on the same PDF and the same per-page retrieval failures,
\* extractTextFromPDF and extractPDFText fail with 'No text content found'
\* together, and when both return, both hold the text of the same pages in
\* the same order.
C26_ExtractorsBehaveAsOne ==
    ( /\ caller = "openai" /\ req.mimetype = "application/pdf"
      /\ stdOut.state = "returned"
      /\ pc \in {"ai_text_call", "ai_return", "store", "done"}
      /\ Happened(Event("ai", "getDocument", 0)) )
    => /\ ~AiNoTextFound
       /\ \A i \in 1..Len(file.pages) :
             (~file.pages[i].throws /\ Truthy(trim(PageText(i))))
             => /\ IsInfix(PageText(i), stdOut.text)
                /\ IsInfix(PageText(i), run.extractedText)

\* C27: for each OCR worker, terminate has been invoked only if the recognize
\* call on that worker has returned or thrown, its creator being past the
\* finally block; a request whose recognize call is outstanding holds a worker
\* on which terminate has not been invoked, whatever the other requests do.
C27_TerminateAfterRecognize ==
    /\ \A w \in 1..Len(pool) :
          LET r == pool[w].createdBy IN
          /\ requests[r].worker = w
          /\ pool[w].terminatedBy # <<>> =>
                /\ requests[r].ocr.state \in {"returned", "threw"}
                /\ requests[r].step \notin {"new", "createWorker", "recognize", "terminate"}
          /\ Len(pool[w].terminatedBy) <= 1
    /\ \A q \in Requests :
          requests[q].step = "recognize" =>
             /\ requests[q].worker \in 1..Len(pool)
             /\ pool[requests[q].worker].terminatedBy = <<>>
             /\ requests[q].ocr.state = "pending"

C27_Witness ==
    /\ Len(pool) = 2
    /\ pool[1].terminatedBy # <<>>
    /\ requests[pool[1].createdBy].ocr.state = "threw"
    /\ requests[pool[2].createdBy].step = "recognize"

\* Events of the extractors: file reads, PDF loading, page retrieval, OCR
\* worker calls, remote calls
ExtractorComponents == {"std", "ocr", "ai"}

\* C28: within a request the handler unlinks the uploaded file only when no
\* extractor is running and every extraction that was started has returned
\* or thrown; after the unlink no extractor step happens any more, so no
\* extractor reads the path of a removed file.
C28_UnlinkAfterExtraction ==
    (caller \in Handlers)
    => /\ pc \in ExtractorPositions => (unlinks = 0 /\ fileOnDisk)
       /\ unlinks > 0 =>
             /\ pc = "done"
             /\ Happened(Event("std", "dispatch", 0)) => stdOut.state # "pending"
             /\ Happened(Event("ai", "dispatch", 0)) => aiOut.state # "pending"
             /\ LET u == FirstIndex(Event("handler", "unlink", 0)) IN
                /\ u > 0
                /\ \A j \in 1..Len(log) :
                      log[j][1] \in ExtractorComponents => j < u

C28_Witness ==
    /\ caller = "openai" /\ unlinks = 1 /\ Succeeded
    /\ Happened(Event("std", "readFile", 0))
    /\ Happened(Event("ai", "readFile", 0))
    /\ FirstIndex(Event("ai", "readFile", 0)) < FirstIndex(Event("handler", "unlink", 0))

\* C29: a document is added to storage only by the step that ends the request
\* with the success response, one document per such request, holding the
\* request's values; until then, and in every request that ends with an error
\* response (validation failure, invalid age, rejected upload, standard
\* extraction failure, storage failure), the stored documents are unchanged.
C29_StoredOnlyOnSuccess ==
    (caller \in Handlers)
    => /\ Len(stored) <= 1
       /\ stored # <<>> <=> Succeeded
       /\ Succeeded =>
             /\ stored = << Document >>
             /\ Len(SelectSeq(log, LAMBDA e : e = Event("storage", "set", 0))) = 1
       /\ (Responded /\ responses[1].status # 200) =>
             /\ stored = <<>>
             /\ ~Happened(Event("storage", "set", 0))
       /\ pc # "done" => stored = <<>>

C29_Witness ==
    /\ caller = "openai" /\ Responded
    /\ responses[1].status = 500
    /\ StorageThrew
    /\ stored = <<>>

\* C30: when every awaited external operation eventually returns or throws,
\* every process-document request eventually sends an HTTP response, and no
\* request ever sends more than one. (A request, once received, stays the
\* request of its handler and a response, once sent, stays in responses, so
\* "infinitely often answered" is "eventually answered, for good".)
C30_RespondsExactlyOnce ==
    /\ [](Len(responses) <= 1)
    /\ []<>(caller \in Handlers => Responded)

C30_Witness ==
    /\ caller = "openai" /\ Responded
    /\ responses[1].status = 200
    /\ req.mimetype = "application/pdf"
    /\ run.pageNum = MaxPages + 1
    /\ aiOut.state = "threw"

====
